---------------------------- MODULE Spec2Model ----------------------------
(***************************************************************************)
(* Model of the Ask Delphi content synchronisation engine:                 *)
(*   - the paginated bulk fetcher   (AskDelphiClient.get_all_topics),      *)
(*   - the change detection engine  (upload_content.detect_changes),       *)
(*   - the upload orchestrator      (upload_content.upload_changes).       *)
(*   - the token lifecycle manager  (AskDelphiClient.authenticate,         *)
(*     _get_api_token, _refresh_tokens) and the request gateway            *)
(*     (AskDelphiClient._request).                                         *)
(*   - the worker pool of the archived bulk download                       *)
(*     (download_content.download_all_content),                            *)
(*   - the workflow and delete calls (AskDelphiClient.checkout_topic,      *)
(*     checkin_topic, cancel_checkout, delete_topic; TopicTools.checkin,   *)
(*     checkout).                                                          *)
(* The remote CMS is the environment: every remote call is answered by a   *)
(* nondeterministic choice between the answers the service can give.       *)
(***************************************************************************)
EXTENDS Integers, Sequences, FiniteSets, TLC

(***************************************************************************)
(* Bounds of the model.                                                    *)
(***************************************************************************)
MaxPages == 3        \* pages of remote content
MaxPageLen == 2      \* items on one page of remote content
MaxTotal == 2        \* largest totalAvailable the server reports
MaxTopics == 2       \* topic ids per snapshot
MaxParts == 2        \* part ids per topic
MaxClock == 800      \* the clock stops here, seconds after construction
MaxWorkers == 2      \* largest number of workers of the pool
MaxCliOps == 2       \* client operations of one run

VARIABLES
    \* ---- get_all_topics ------------------------------------------------
    fetch_pc,        \* "idle" | "loop" | "done" | "raised"
    page_size,       \* argument page_size
    all_topics,      \* local all_topics
    offset,          \* local offset
    total,           \* local total
    search_calls,    \* page numbers sent to the search endpoint, in order
    served,          \* pages (item sequences) the server answered, in order
    server_pages,    \* remote content: the item list of page 0, 1, ...
    \* ---- normalize_topic -----------------------------------------------
    norm_pc,         \* "idle" | "normalized" | "renormalized"
    norm_input,      \* the topic handed to normalize_topic
    norm_once,       \* normalize_topic(norm_input)
    norm_twice,      \* normalize_topic(norm_once)
    \* ---- detect_changes ------------------------------------------------
    diff_pc,         \* "idle" | "loaded" | "detected" | "selfdetected"
    original_data,   \* the original snapshot
    modified_data,   \* the modified snapshot
    changes,         \* the ChangeReport returned by detect_changes
    \* ---- upload_changes ------------------------------------------------
    up_pc,           \* position in upload_changes
    dry_run,         \* argument dry_run
    force,           \* argument force
    create_backup_file, \* argument create_backup_file
    original_file,   \* TRUE iff an original file was given
    report,          \* the UploadReport being accumulated / returned
    calls,           \* remote calls and prompts so far, in order, with their outcome
    new_idx,         \* position in changes.new_topics
    mod_idx,         \* position in changes.modified_topics
    part_idx,        \* position in change["changed_parts"]
    current_version, \* local current_version of the lock reset
    new_version_id,  \* local new_version_id returned by checkout_topic
    parts_updated,   \* local parts_updated
    \* ---- token lifecycle manager and request gateway --------------------
    tok_pc,          \* "idle", or the network call about to be made
    tok_op,          \* operation running or last completed
    auth_phase,      \* authenticate: "cached" path or "fresh" exchange
    code,            \* authenticate: local code
    req_token,       \* _request: local token
    tok_result,      \* "none" | "returned" | "raised"
    tok_value,       \* the token returned or the error raised
    response_status, \* _request: status code of the response, 0 if none
    response_data,   \* _request: the value returned
    access_token,    \* self._access_token
    refresh_token,   \* self._refresh_token
    publication_url, \* self._publication_url
    api_token,       \* self._api_token
    api_token_expiry, \* self._api_token_expiry
    token_cache,     \* content of the token cache file
    portal_code,     \* self.portal_code
    now,             \* time.time(), seconds after construction
    at_entry,        \* Credential, cache file and time when the operation began
    trace,           \* network calls and cache writes of the operation, in order
    \* ---- download_all_content: the worker pool -------------------------
    pool_pc,         \* "idle" | "pool" | "parents" | "done"
    workers,         \* argument workers
    remote,          \* remote content: parts and relations of every topic
    pool_topics,     \* local all_topics, the list handed to the pool
    submitted,       \* number of futures a worker has picked up
    running,         \* positions of the futures being run
    topics_dict,     \* local topics_dict, in insertion order
    \* ---- AskDelphiClient and TopicTools: workflow and delete calls -------
    cli_pc,          \* "idle", or the request of delete_topic about to be sent
    topic_version_id, \* delete_topic: argument and local topic_version_id
    requests,        \* requests sent, in order, with their outcome
    cli_ops          \* number of operations called so far

fetchVars == <<fetch_pc, page_size, all_topics, offset, total, search_calls, served,
               server_pages>>

normVars == <<norm_pc, norm_input, norm_once, norm_twice>>
diffVars == <<diff_pc, original_data, modified_data, changes>>

upVars == <<up_pc, dry_run, force, create_backup_file, original_file, report, calls,
            new_idx, mod_idx, part_idx, current_version, new_version_id, parts_updated>>

tokVars == <<tok_pc, tok_op, auth_phase, code, req_token, tok_result, tok_value,
             response_status, response_data, access_token, refresh_token,
             publication_url, api_token, api_token_expiry, token_cache, portal_code,
             now, at_entry, trace>>

poolVars == <<pool_pc, workers, remote, pool_topics, submitted, running, topics_dict>>
cliVars == <<cli_pc, topic_version_id, requests, cli_ops>>

vars == <<fetchVars, normVars, diffVars, upVars, tokVars, poolVars, cliVars>>

(***************************************************************************)
(* Python helpers.                                                         *)
(***************************************************************************)
\* dict.get(key, default) on a dict modelled as a function over its keys
Get(d, k, default) == IF k \in DOMAIN d THEN d[k] ELSE default

EmptyDict == [k \in {} |-> 0]

\* floor division as Python's // on naturals
FloorDiv(a, b) == a \div b

(***************************************************************************)
(* Paginated bulk fetcher.                                                 *)
(***************************************************************************)
PageSizes == {1, 2}

RECURSIVE SeqsUpTo(_, _)
SeqsUpTo(S, n) ==
    IF n = 0 THEN {<<>>}
    ELSE LET shorter == SeqsUpTo(S, n - 1)
         IN shorter \cup {Append(s, x) : s \in {q \in shorter : Len(q) = n - 1}, x \in S}

\* the remote content: page k holds n items, here the pairs <<k, 1>> .. <<k, n>>
PageOf(k, n) == [i \in 1..n |-> <<k, i>>]
ContentOf(lengths) == [k \in 1..Len(lengths) |-> PageOf(k - 1, lengths[k])]
ServerContents == {ContentOf(ls) : ls \in SeqsUpTo(0..MaxPageLen, MaxPages)}
Totals == 0..MaxTotal
Shapes == {"topicList", "topicListNoResult", "items", "data", "result", "bare"}

\* the JSON bodies the search endpoint is known to answer with
ResponseBody(shape, page, tot) ==
    CASE shape = "topicList"         -> [topicList |-> [result |-> page, totalAvailable |-> tot]]
      [] shape = "topicListNoResult" -> [topicList |-> [totalAvailable |-> tot]]
      [] shape = "items"             -> [items |-> page, total |-> tot]
      [] shape = "data"              -> [data |-> page, totalCount |-> tot]
      [] shape = "result"            -> [result |-> page, totalAvailable |-> tot]
      [] OTHER                       -> EmptyDict

\* a shape that carries no item list serves the empty page
ShapeCarries(shape, page) ==
    shape \in {"topicListNoResult", "bare"} => page = <<>>

\* search_topics: page number computed from offset and limit
SearchPage(off, limit) == IF limit > 0 THEN FloorDiv(off, limit) ELSE 0

\* get_all_topics: extraction of (items, total) from one response
ExtractItems(result) ==
    LET topic_list == Get(result, "topicList", EmptyDict)
    IN IF DOMAIN topic_list # {}
       THEN Get(topic_list, "result", <<>>)
       ELSE Get(result, "items", Get(result, "data", Get(result, "result", <<>>)))

ExtractTotal(result) ==
    LET topic_list == Get(result, "topicList", EmptyDict)
    IN IF DOMAIN topic_list # {}
       THEN Get(topic_list, "totalAvailable", 0)
       ELSE Get(result, "total", Get(result, "totalCount", Get(result, "totalAvailable", 0)))

\* variant of the exit test that also trusts the reported total
StopPaginationTrustTotal(items, acc, tot) == items = <<>> \/ Len(acc) >= tot

\* variant of the exit test that stops on a page shorter than page_size
StopPaginationShortPage(items, acc, tot) == Len(items) < page_size

\* the loop's exit test: "if not items: break"
StopPagination(items, acc, tot) == items = <<>>

\* the page the server holds under a page number; empty beyond its content
ServerPage(k) == IF k + 1 <= Len(server_pages) THEN server_pages[k + 1] ELSE <<>>

FetchIdle ==
    /\ fetch_pc = "idle"
    /\ page_size = 0
    /\ all_topics = <<>>
    /\ offset = 0
    /\ total = 0
    /\ search_calls = <<>>
    /\ served = <<>>

\* entry of get_all_topics
GetAllTopicsStart ==
    /\ fetch_pc = "idle"
    /\ \E ps \in PageSizes : page_size' = ps
    /\ all_topics' = <<>>
    /\ offset' = 0
    /\ total' = 0
    /\ fetch_pc' = "loop"
    /\ UNCHANGED <<search_calls, served, server_pages, normVars, diffVars, upVars, tokVars, poolVars, cliVars>>

\* one iteration of the while loop with a search call that succeeds
SearchPageOk ==
    /\ fetch_pc = "loop"
    /\ \E shape \in Shapes, tot \in Totals :
          /\ ShapeCarries(shape, ServerPage(SearchPage(offset, page_size)))
          /\ LET page == ServerPage(SearchPage(offset, page_size))
                 result == ResponseBody(shape, page, tot)
                 items == ExtractItems(result)
                 acc == all_topics \o items
             IN /\ search_calls' = Append(search_calls, SearchPage(offset, page_size))
                /\ served' = Append(served, page)
                /\ all_topics' = acc
                /\ total' = ExtractTotal(result)
                /\ IF StopPagination(items, acc, ExtractTotal(result))
                   THEN /\ fetch_pc' = "done"
                        /\ offset' = offset
                   ELSE /\ fetch_pc' = "loop"
                        /\ offset' = offset + page_size
    /\ UNCHANGED <<page_size, server_pages, normVars, diffVars, upVars, tokVars, poolVars, cliVars>>

\* one iteration whose search call raises: the exception leaves get_all_topics
SearchPageRaises ==
    /\ fetch_pc = "loop"
    /\ search_calls' = Append(search_calls, SearchPage(offset, page_size))
    /\ fetch_pc' = "raised"
    /\ UNCHANGED <<page_size, all_topics, offset, total, served, server_pages,
                   normVars, diffVars, upVars, tokVars, poolVars, cliVars>>

FetchInit ==
    /\ FetchIdle
    /\ server_pages \in ServerContents

(***************************************************************************)
(* JSON values as Python holds them after json.load.  A dict keeps its     *)
(* insertion order: it is a sequence of <<key, value>> pairs with distinct *)
(* keys.  A list is a sequence of <<"", value>> pairs.                     *)
(***************************************************************************)
JStr(x) == [t |-> "str", s |-> x, items |-> <<>>]
JNull == [t |-> "null", s |-> "", items |-> <<>>]
JDict(pairs) == [t |-> "dict", s |-> "", items |-> pairs]
JList(pairs) == [t |-> "list", s |-> "", items |-> pairs]
JEmptyDict == JDict(<<>>)

\* isinstance(value, dict)
IsDict(v) == v.t = "dict"

\* key in d
RECURSIVE HasKeyIn(_, _)
HasKeyIn(pairs, k) ==
    IF pairs = <<>> THEN FALSE
    ELSE IF Head(pairs)[1] = k THEN TRUE ELSE HasKeyIn(Tail(pairs), k)
HasKey(d, k) == HasKeyIn(d.items, k)

\* d.get(k, default)
RECURSIVE LookupIn(_, _, _)
LookupIn(pairs, k, default) ==
    IF pairs = <<>> THEN default
    ELSE IF Head(pairs)[1] = k THEN Head(pairs)[2] ELSE LookupIn(Tail(pairs), k, default)
DictGet(d, k, default) == LookupIn(d.items, k, default)

\* the keys of a dict, as a set
KeySet(d) == {d.items[i][1] : i \in 1..Len(d.items)}

\* Python's == on JSON values: dicts compare as mappings, lists as sequences
RECURSIVE PyEq(_, _)
PyEq(a, b) ==
    IF a.t # b.t THEN FALSE
    ELSE IF a.t = "dict"
         THEN /\ KeySet(a) = KeySet(b)
              /\ \A k \in KeySet(a) : PyEq(DictGet(a, k, JNull), DictGet(b, k, JNull))
    ELSE IF a.t = "list"
         THEN /\ Len(a.items) = Len(b.items)
              /\ \A i \in 1..Len(a.items) : PyEq(a.items[i][2], b.items[i][2])
    ELSE a.s = b.s

(***************************************************************************)
(* Change detection engine.                                                *)
(***************************************************************************)
FIELDS_TO_IGNORE == {"version_id", "_checksum", "modified_at", "created_at"}

RECURSIVE NormalizeItemsSkipping(_)
RECURSIVE NormalizeItems(_)

\* variant of the filtering that deletes while it iterates, so that the
\* entry following a removed one is passed over
NormalizeItemsSkipping(pairs) ==
    IF pairs = <<>> THEN <<>>
    ELSE LET key == Head(pairs)[1]
             value == Head(pairs)[2]
         IN IF key \in FIELDS_TO_IGNORE
            THEN IF Len(pairs) >= 2
                 THEN <<pairs[2]>> \o NormalizeItemsSkipping(Tail(Tail(pairs)))
                 ELSE <<>>
            ELSE << <<key, IF IsDict(value) THEN JDict(NormalizeItemsSkipping(value.items))
                                            ELSE value>> >>
                 \o NormalizeItemsSkipping(Tail(pairs))

\* the dict comprehension of normalize_topic over the items of a dict
NormalizeItems(pairs) ==
    IF pairs = <<>> THEN <<>>
    ELSE LET key == Head(pairs)[1]
             value == Head(pairs)[2]
         IN IF key \in FIELDS_TO_IGNORE
            THEN NormalizeItems(Tail(pairs))
            ELSE << <<key, IF IsDict(value) THEN JDict(NormalizeItems(value.items))
                                            ELSE value>> >>
                 \o NormalizeItems(Tail(pairs))

normalize_topic(topic) == JDict(NormalizeItems(topic.items))

\* code-point order of the keys that occur in snapshots
KeyOrder == <<"A", "B", "C", "D", "_checksum", "_metadata", "content", "created_at",
              "group", "id", "modified_at", "name", "p1", "p2", "p3", "p4", "parts",
              "tags", "title", "topic_type_id", "topics", "type", "version_id">>
Rank(k) == CHOOSE i \in 1..Len(KeyOrder) : KeyOrder[i] = k

RECURSIVE InsertByKey(_, _)
InsertByKey(sorted, pair) ==
    IF sorted = <<>> THEN <<pair>>
    ELSE IF Rank(pair[1]) < Rank(Head(sorted)[1])
         THEN <<pair>> \o sorted
         ELSE <<Head(sorted)>> \o InsertByKey(Tail(sorted), pair)

RECURSIVE SortByKey(_)
SortByKey(pairs) ==
    IF pairs = <<>> THEN <<>> ELSE InsertByKey(SortByKey(Tail(pairs)), Head(pairs))

\* json.dumps(value, sort_keys=True): the text is determined by the value
\* with every dict written in key order and every list in its own order
RECURSIVE JsonDumps(_)
RECURSIVE DumpItems(_)
DumpItems(pairs) ==
    IF pairs = <<>> THEN <<>>
    ELSE << <<Head(pairs)[1], JsonDumps(Head(pairs)[2])>> >> \o DumpItems(Tail(pairs))
JsonDumps(v) ==
    IF v.t = "dict" THEN JDict(SortByKey(DumpItems(v.items)))
    ELSE IF v.t = "list" THEN JList(DumpItems(v.items))
    ELSE v

\* k: v for k, v in data.items() if k != "_checksum"
RECURSIVE WithoutKey(_, _)
WithoutKey(pairs, k) ==
    IF pairs = <<>> THEN <<>>
    ELSE IF Head(pairs)[1] = k THEN WithoutKey(Tail(pairs), k)
         ELSE <<Head(pairs)>> \o WithoutKey(Tail(pairs), k)

\* calculate_checksum: SHA-256 of the sorted-key serialisation; the digest is
\* taken to be collision free, so it is represented by the text it hashes
calculate_checksum(data) ==
    <<"sha256", JsonDumps(JDict(WithoutKey(data.items, "_checksum")))>>

\* variant of the part comparison that compares the whole part
PartDiffersWhole(orig_part, new_part) == ~PyEq(orig_part, new_part)

\* diff_parts: the test that makes a part present on both sides "modified"
PartDiffers(orig_part, new_part) ==
    ~PyEq(DictGet(orig_part, "content", JNull), DictGet(new_part, "content", JNull))

\* diff_parts, first loop: parts of the modified topic, in its order
RECURSIVE DiffPartsModified(_, _)
DiffPartsModified(mod_items, original_parts) ==
    IF mod_items = <<>> THEN <<>>
    ELSE LET part_id == Head(mod_items)[1]
             part_data == Head(mod_items)[2]
             entry ==
                IF ~HasKey(original_parts, part_id)
                THEN << [part_id |-> part_id, change_type |-> "new",
                         name |-> DictGet(part_data, "name", JStr(part_id))] >>
                ELSE IF PartDiffers(DictGet(original_parts, part_id, JNull), part_data)
                     THEN << [part_id |-> part_id, change_type |-> "modified",
                              name |-> DictGet(part_data, "name", JStr(part_id))] >>
                     ELSE <<>>
         IN entry \o DiffPartsModified(Tail(mod_items), original_parts)

\* diff_parts, second loop: parts of the original topic, in its order
RECURSIVE DiffPartsDeleted(_, _)
DiffPartsDeleted(orig_items, modified_parts) ==
    IF orig_items = <<>> THEN <<>>
    ELSE LET part_id == Head(orig_items)[1]
             entry ==
                IF ~HasKey(modified_parts, part_id)
                THEN << [part_id |-> part_id, change_type |-> "deleted",
                         name |-> DictGet(Head(orig_items)[2], "name", JStr(part_id))] >>
                ELSE <<>>
         IN entry \o DiffPartsDeleted(Tail(orig_items), modified_parts)

diff_parts(original_parts, modified_parts) ==
    DiffPartsModified(modified_parts.items, original_parts)
        \o DiffPartsDeleted(original_parts.items, modified_parts)

EmptyChangeReport ==
    [new_topics |-> <<>>, modified_topics |-> <<>>, deleted_topics |-> <<>>,
     unchanged_topics |-> <<>>]

\* variant of the title test that reads the flag off the fingerprints
TitleChangedByChecksum(orig_topic, topic_data) ==
    calculate_checksum(normalize_topic(orig_topic))
        # calculate_checksum(normalize_topic(topic_data))

\* detect_changes: title_changed of a modified topic
TitleChanged(orig_topic, topic_data) ==
    ~PyEq(DictGet(orig_topic, "title", JNull), DictGet(topic_data, "title", JNull))

\* variant of the fingerprint test that trusts the checksum stored in the export
TopicDiffersStored(orig_topic, topic_data) ==
    <<"sha256", DictGet(orig_topic, "_checksum", JNull)>> # calculate_checksum(topic_data)

\* variant of the fingerprint test that compares the raw topics
TopicDiffersRaw(orig_topic, topic_data) ==
    calculate_checksum(orig_topic) # calculate_checksum(topic_data)

\* detect_changes: the fingerprint test on the two normalized topics
TopicDiffers(orig_topic, topic_data) ==
    calculate_checksum(normalize_topic(orig_topic))
        # calculate_checksum(normalize_topic(topic_data))

\* detect_changes: the entry appended to report.modified_topics
ModifiedEntry(topic_id, orig_topic, topic_data) ==
    [topic_id |-> topic_id,
     title |-> DictGet(topic_data, "title", JNull),
     title_changed |-> TitleChanged(orig_topic, topic_data),
     old_title |-> DictGet(orig_topic, "title", JNull),
     changed_parts |-> diff_parts(DictGet(orig_topic, "parts", JEmptyDict),
                                  DictGet(topic_data, "parts", JEmptyDict)),
     old_checksum |-> calculate_checksum(normalize_topic(orig_topic)),
     new_checksum |-> calculate_checksum(normalize_topic(topic_data))]

\* detect_changes, first loop: topics of the modified snapshot, in its order
RECURSIVE DetectModifiedLoop(_, _, _)
DetectModifiedLoop(mod_items, original_topics, rep) ==
    IF mod_items = <<>> THEN rep
    ELSE LET topic_id == Head(mod_items)[1]
             topic_data == Head(mod_items)[2]
             orig_topic == DictGet(original_topics, topic_id, JNull)
             next ==
                IF ~HasKey(original_topics, topic_id)
                THEN [rep EXCEPT !.new_topics = Append(@, topic_id)]
                ELSE IF TopicDiffers(orig_topic, topic_data)
                     THEN [rep EXCEPT !.modified_topics =
                               Append(@, ModifiedEntry(topic_id, orig_topic, topic_data))]
                     ELSE [rep EXCEPT !.unchanged_topics = Append(@, topic_id)]
         IN DetectModifiedLoop(Tail(mod_items), original_topics, next)

\* a second loop that reports every topic of the original snapshot as deleted
DetectDeletedLoopAll(orig_items, modified_topics, rep) ==
    [rep EXCEPT !.deleted_topics = [i \in 1..Len(orig_items) |-> orig_items[i][1]]]

\* detect_changes, second loop: topics of the original snapshot, in its order
RECURSIVE DetectDeletedLoop(_, _, _)
DetectDeletedLoop(orig_items, modified_topics, rep) ==
    IF orig_items = <<>> THEN rep
    ELSE LET topic_id == Head(orig_items)[1]
             next == IF ~HasKey(modified_topics, topic_id)
                     THEN [rep EXCEPT !.deleted_topics = Append(@, topic_id)]
                     ELSE rep
         IN DetectDeletedLoop(Tail(orig_items), modified_topics, next)

detect_changes(original, modified) ==
    LET original_topics == DictGet(original, "topics", JEmptyDict)
        modified_topics == DictGet(modified, "topics", JEmptyDict)
    IN DetectDeletedLoop(original_topics.items, modified_topics,
           DetectModifiedLoop(modified_topics.items, original_topics, EmptyChangeReport))

\* ChangeReport.has_changes
has_changes(rep) ==
    rep.new_topics # <<>> \/ rep.modified_topics # <<>> \/ rep.deleted_topics # <<>>

\* ChangeReport.total_changes
total_changes(rep) ==
    Len(rep.new_topics) + Len(rep.modified_topics) + Len(rep.deleted_topics)


(***************************************************************************)
(* Snapshots the engine is run on.  Topics have the layout that            *)
(* build_topic_entry exports; part 1 and topic 1 vary richly, the further  *)
(* ones are present or absent.                                             *)
(***************************************************************************)
TopicIds == <<"A", "B", "C", "D">>
PartIds == <<"p1", "p2", "p3", "p4">>

PartOfKind(part_id, kind) ==
    LET name == IF kind = "renamed" THEN "n2" ELSE "n1"
        content == IF kind = "bar" THEN JStr("bar")
                   ELSE IF kind = "null" THEN JNull ELSE JStr("foo")
        stamp == IF kind = "stamped"
                 THEN << <<"version_id", JStr("pv2")>>, <<"modified_at", JStr("m2")>> >>
                 ELSE <<>>
    IN JDict(<< <<"id", JStr(part_id)>>, <<"name", JStr(name)>>, <<"type", JStr("text")>> >>
             \o stamp \o << <<"content", content>> >>)

AllPartKinds == {"absent", "basic", "bar", "renamed", "stamped", "null"}
ModPartKinds(j) == IF j = 1 THEN AllPartKinds ELSE {"absent", "basic"}
OrigPartKinds(j) == IF j = 1 THEN {"basic"} ELSE {"absent", "basic"}

RECURSIVE PartItems(_, _)
PartItems(kinds, j) ==
    IF j > MaxParts THEN <<>>
    ELSE (IF kinds[j] = "absent" THEN <<>>
          ELSE << <<PartIds[j], PartOfKind(PartIds[j], kinds[j])>> >>)
         \o PartItems(kinds, j + 1)

ModPartsChoices ==
    {JDict(PartItems(f, 1)) :
        f \in {g \in [1..MaxParts -> AllPartKinds] : \A j \in 1..MaxParts : g[j] \in ModPartKinds(j)}}
OrigPartsChoices ==
    {JDict(PartItems(f, 1)) :
        f \in {g \in [1..MaxParts -> AllPartKinds] : \A j \in 1..MaxParts : g[j] \in OrigPartKinds(j)}}

Tag(name, created) ==
    JDict(<< <<"name", JStr(name)>>, <<"created_at", JStr(created)>> >>)
BasicTags == JList(<< <<"", Tag("tg", "c1")>> >>)
RestampedTags == JList(<< <<"", Tag("tg", "c2")>> >>)

RECURSIVE Reverse(_)
Reverse(q) == IF q = <<>> THEN <<>> ELSE Append(Reverse(Tail(q)), Head(q))

\* a topic entry; parts = JNull stands for an entry without a "parts" key
TopicEntry(topic_id, ver, title, tags, parts, reversed) ==
    LET pairs == << <<"id", JStr(topic_id)>>, <<"version_id", JStr(ver)>>,
                    <<"title", JStr(title)>>, <<"topic_type_id", JStr("tt")>>,
                    <<"created_at", JStr("c1")>>, <<"modified_at", JStr(ver)>>,
                    <<"tags", tags>> >>
                 \o (IF parts = JNull THEN <<>> ELSE << <<"parts", parts>> >>)
                 \o << <<"_checksum", JStr(ver)>> >>
    IN JDict(IF reversed THEN Reverse(pairs) ELSE pairs)

BasicParts == JDict(<< <<"p1", PartOfKind("p1", "basic")>> >>)

\* how the bookkeeping of a modified entry differs from the original's:
\* not at all, re-exported (new version id and stamps, keys in reverse
\* order), or with a tag whose created_at stamp differs
MetaKinds == {"same", "reexported", "retagged"}
TopicWithMeta(topic_id, meta, title, parts) ==
    TopicEntry(topic_id, IF meta = "reexported" THEN "v2" ELSE "v1", title,
               IF meta = "retagged" THEN RestampedTags ELSE BasicTags,
               parts, meta = "reexported")

\* the entries topic 1 can have in the modified and in the original snapshot
ModTopics1 ==
    {TopicWithMeta(TopicIds[1], meta, title, parts) :
        meta \in MetaKinds, title \in {"X", "Y"}, parts \in ModPartsChoices \cup {JNull}}
OrigTopics1 ==
    {TopicEntry(TopicIds[1], "v1", "X", BasicTags, parts, FALSE) : parts \in OrigPartsChoices}

\* the entries of the further topics
TopicOfKind(topic_id, kind) ==
    TopicEntry(topic_id, "v1", IF kind = "retitled" THEN "Y" ELSE "X", BasicTags,
               BasicParts, FALSE)
ModTopicKinds == {"absent", "retitled"}
OrigTopicKinds == {"absent", "basic"}

RECURSIVE FurtherTopicItems(_, _)
FurtherTopicItems(kinds, j) ==
    IF j > MaxTopics THEN <<>>
    ELSE (IF kinds[j] = "absent" THEN <<>>
          ELSE << <<TopicIds[j], TopicOfKind(TopicIds[j], kinds[j])>> >>)
         \o FurtherTopicItems(kinds, j + 1)

SnapshotOf(topic_items) ==
    JDict(<< <<"_metadata", JDict(<< <<"version", JStr("1.0")>> >>)>>,
             <<"topics", JDict(topic_items)>> >>)

FirstItems(choices) == {<<>>} \cup {<< <<TopicIds[1], e>> >> : e \in choices}

ModSnapshots ==
    {SnapshotOf(first \o FurtherTopicItems(f, 2)) :
        first \in FirstItems(ModTopics1), f \in [2..MaxTopics -> ModTopicKinds]}
OrigSnapshots ==
    {SnapshotOf(first \o FurtherTopicItems(f, 2)) :
        first \in FirstItems(OrigTopics1), f \in [2..MaxTopics -> OrigTopicKinds]}

(***************************************************************************)
(* normalize_topic applied to a topic, and to its own result.              *)
(***************************************************************************)
NormIdle ==
    /\ norm_pc = "idle"
    /\ norm_once = JNull
    /\ norm_twice = JNull

NormInit ==
    /\ NormIdle
    /\ norm_input \in ModTopics1 \cup OrigTopics1

NormalizeTopic ==
    /\ norm_pc = "idle"
    /\ norm_once' = normalize_topic(norm_input)
    /\ norm_pc' = "normalized"
    /\ UNCHANGED <<norm_input, norm_twice, fetchVars, diffVars, upVars, tokVars, poolVars, cliVars>>

NormalizeAgain ==
    /\ norm_pc = "normalized"
    /\ norm_twice' = normalize_topic(norm_once)
    /\ norm_pc' = "renormalized"
    /\ UNCHANGED <<norm_input, norm_once, fetchVars, diffVars, upVars, tokVars, poolVars, cliVars>>

(***************************************************************************)
(* detect_changes applied to two snapshots, and to one snapshot twice.     *)
(***************************************************************************)
DiffIdle ==
    /\ diff_pc = "idle"
    /\ original_data = JNull
    /\ modified_data = JNull
    /\ changes = EmptyChangeReport

\* load_json of the two files
LoadSnapshots ==
    /\ diff_pc = "idle"
    /\ original_data' \in OrigSnapshots
    /\ modified_data' \in ModSnapshots
    /\ diff_pc' = "loaded"
    /\ UNCHANGED <<changes, fetchVars, normVars, upVars, tokVars, poolVars, cliVars>>

\* detect_changes(original_data, modified_data)
DetectChanges ==
    /\ diff_pc = "loaded"
    /\ changes' = detect_changes(original_data, modified_data)
    /\ diff_pc' = "detected"
    /\ UNCHANGED <<original_data, modified_data, fetchVars, normVars, upVars, tokVars, poolVars, cliVars>>

\* detect_changes(S, S) for one of the loaded snapshots
DetectSelf ==
    /\ diff_pc = "loaded"
    /\ \E S \in {original_data, modified_data} :
          /\ original_data' = S
          /\ modified_data' = S
          /\ changes' = detect_changes(S, S)
    /\ diff_pc' = "selfdetected"
    /\ UNCHANGED <<fetchVars, normVars, upVars, tokVars, poolVars, cliVars>>

(***************************************************************************)
(* Upload orchestrator: upload_changes.                                    *)
(***************************************************************************)
\* the snapshots upload_changes is run on
PartsOf(kind1, kind2) ==
    JDict((IF kind1 = "absent" THEN <<>> ELSE << <<"p1", PartOfKind("p1", kind1)>> >>)
          \o (IF kind2 = "absent" THEN <<>> ELSE << <<"p2", PartOfKind("p2", kind2)>> >>))

UploadOrigTopicsA ==
    {TopicEntry("A", "v1", "X", BasicTags, PartsOf("basic", "absent"), FALSE),
     TopicEntry("A", "v1", "X", BasicTags, PartsOf("basic", "basic"), FALSE)}
UploadModTopicsA ==
    {TopicEntry("A", "v2", "X", BasicTags, PartsOf("basic", "absent"), TRUE),
     TopicEntry("A", "v1", "Y", BasicTags, PartsOf("basic", "absent"), FALSE),
     TopicEntry("A", "v1", "X", BasicTags, PartsOf("bar", "absent"), FALSE),
     TopicEntry("A", "v1", "Y", BasicTags, PartsOf("bar", "basic"), FALSE),
     TopicEntry("A", "v1", "X", BasicTags, PartsOf("renamed", "absent"), FALSE)}

TopicItemsOf(topic_id, entries) ==
    {<<>>} \cup {<< <<topic_id, e>> >> : e \in entries}

UploadOrigSnapshots ==
    {SnapshotOf(a \o b) :
        a \in TopicItemsOf("A", UploadOrigTopicsA),
        b \in TopicItemsOf("B", {TopicOfKind("B", "basic")})}
UploadModSnapshots ==
    {SnapshotOf(a \o b) :
        a \in TopicItemsOf("A", UploadModTopicsA),
        b \in TopicItemsOf("B", {TopicOfKind("B", "basic"), TopicOfKind("B", "retitled")})}

\* UploadReport()
EmptyUploadReport ==
    [created |-> <<>>, updated |-> <<>>, errors |-> <<>>, warnings |-> <<>>,
     skipped |-> <<>>, dry_run |-> FALSE]

\* a version id as it is put into a request
VersionStr(v) == IF v = JNull THEN "None" ELSE v.s

\* one remote call as the service sees it, with the outcome the client saw
Call(op, topic_id, version, part_id, arg, ok) ==
    [op |-> op, topic_id |-> topic_id, version |-> version, part_id |-> part_id,
     arg |-> arg, ok |-> ok]

\* the remote calls that change remote state
MutatingOps == {"create", "checkout", "metadata", "part", "checkin", "cancel", "delete"}

\* version ids the service hands out
SessionVersions == {"s1"}

UploadIdle ==
    /\ up_pc = "idle"
    /\ dry_run = FALSE
    /\ force = FALSE
    /\ create_backup_file = FALSE
    /\ original_file = FALSE
    /\ report = EmptyUploadReport
    /\ calls = <<>>
    /\ new_idx = 0
    /\ mod_idx = 0
    /\ part_idx = 0
    /\ current_version = "None"
    /\ new_version_id = "None"
    /\ parts_updated = 0

\* locals of the loop over changes.modified_topics
Change == changes.modified_topics[mod_idx]
ChangeTopicId == Change.topic_id
ChangeTopicData == DictGet(DictGet(modified_data, "topics", JEmptyDict), ChangeTopicId, JNull)
\* version_id = topic_data.get("version_id")
SnapshotVersionId == VersionStr(DictGet(ChangeTopicData, "version_id", JNull))

\* the report with one warning per deleted topic appended
RECURSIVE DeletedWarnings(_)
DeletedWarnings(ids) ==
    IF ids = <<>> THEN <<>>
    ELSE << [topic_id |-> Head(ids),
             message |-> "Topic removed from local file but not deleted on server"] >>
         \o DeletedWarnings(Tail(ids))

\* variant of the end of the upload that records nothing for the deleted topics
WithoutDeletedWarnings(ch, rep) == rep

WithDeletedWarnings(ch, rep) ==
    [rep EXCEPT !.warnings = @ \o DeletedWarnings(ch.deleted_topics)]

\* variant of "Process changes" that passes over the new topics
AfterNewPcSkipsNew(ch, i) ==
    IF ch.modified_topics # <<>> THEN "lr_search" ELSE "finish"

\* where processing of the change report ch goes when the new topics from
\* position i on are left
AfterNewPc(ch, i) ==
    IF i <= Len(ch.new_topics) THEN "new"
    ELSE IF ch.modified_topics # <<>> THEN "lr_search" ELSE "finish"

\* variant of the loop over the modified topics that ends at the first topic
\* recorded in report.errors
AfterModifiedPcStopsOnError(i) ==
    IF i <= Len(changes.modified_topics) /\ report.errors = <<>> THEN "lr_search" ELSE "finish"

\* where processing goes when the modified topics from position i on are left
AfterModifiedPc(i) ==
    IF i <= Len(changes.modified_topics) THEN "lr_search" ELSE "finish"

\* entering the phase pc with report rep; the loop over the deleted topics of
\* ch and the return follow the last topic without a further remote call
Goto(ch, pc, rep) ==
    IF pc = "finish"
    THEN /\ up_pc' = "returned"
         /\ report' = WithDeletedWarnings(ch, rep)
    ELSE /\ up_pc' = pc
         /\ report' = rep

\* the start of "Process changes" for the change report ch
StartProcessing(ch) ==
    /\ new_idx' = 1
    /\ mod_idx' = 1
    /\ Goto(ch, AfterNewPc(ch, 1), EmptyUploadReport)

\* load_json(input_file), with the arguments of the call
LoadModified ==
    /\ up_pc = "idle"
    /\ dry_run' \in BOOLEAN
    /\ force' \in BOOLEAN
    /\ create_backup_file' \in BOOLEAN
    /\ original_file' \in BOOLEAN
    /\ \/ /\ modified_data' \in UploadModSnapshots
          /\ up_pc' = "auth"
       \/ /\ modified_data' = modified_data
          /\ up_pc' = "failed"
    /\ UNCHANGED <<original_data, changes, report, calls, new_idx, mod_idx, part_idx,
                   current_version, new_version_id, parts_updated, diff_pc,
                   fetchVars, normVars, tokVars, poolVars, cliVars>>

\* client.authenticate()
Authenticate ==
    /\ up_pc = "auth"
    /\ \E ok \in BOOLEAN :
          /\ calls' = Append(calls, Call("authenticate", "", "None", "", JNull, ok))
          /\ up_pc' = IF ok THEN "original" ELSE "failed"
    /\ UNCHANGED <<dry_run, force, create_backup_file, original_file, report, new_idx,
                   mod_idx, part_idx, current_version, new_version_id, parts_updated,
                   diffVars, fetchVars, normVars, tokVars, poolVars, cliVars>>

\* load_json(original_file)
LoadOriginal ==
    /\ up_pc = "original"
    /\ original_file
    /\ \/ /\ original_data' \in UploadOrigSnapshots
          /\ up_pc' = "detect"
       \/ /\ original_data' = original_data
          /\ up_pc' = "failed"
    /\ UNCHANGED <<modified_data, changes, diff_pc, dry_run, force, create_backup_file,
                   original_file, report, calls, new_idx, mod_idx, part_idx,
                   current_version, new_version_id, parts_updated, fetchVars, normVars, tokVars, poolVars, cliVars>>

\* download_all_content(temp_file) followed by load_json(temp_file)
FetchOriginal ==
    /\ up_pc = "original"
    /\ ~original_file
    /\ \E ok \in BOOLEAN :
          /\ calls' = Append(calls, Call("download", "", "None", "", JNull, ok))
          /\ IF ok
             THEN /\ original_data' \in UploadOrigSnapshots
                  /\ up_pc' = "detect"
             ELSE /\ original_data' = original_data
                  /\ up_pc' = "failed"
    /\ UNCHANGED <<modified_data, changes, diff_pc, dry_run, force, create_backup_file,
                   original_file, report, new_idx, mod_idx, part_idx,
                   current_version, new_version_id, parts_updated, fetchVars, normVars, tokVars, poolVars, cliVars>>

\* variant of the branch after the change report that never asks for
\* confirmation
AfterDetectPcNoConfirm(dry, frc, backup, ch) ==
    IF dry THEN "returned_dry"
    ELSE IF ~has_changes(ch) THEN "returned_empty"
    ELSE IF backup THEN "backup" ELSE "process"

\* variant of the branch after the change report in which force overrides dry_run
AfterDetectPcForceWins(dry, frc, backup, ch) ==
    IF dry /\ ~frc THEN "returned_dry"
    ELSE IF ~has_changes(ch) THEN "returned_empty"
    ELSE IF ~frc THEN "confirm"
    ELSE IF backup THEN "backup" ELSE "process"

\* the branch after the change report: dry run, nothing to do, confirmation,
\* backup, or processing
AfterDetectPc(dry, frc, backup, ch) ==
    IF dry THEN "returned_dry"
    ELSE IF ~has_changes(ch) THEN "returned_empty"
    ELSE IF ~frc THEN "confirm"
    ELSE IF backup THEN "backup" ELSE "process"

\* detect_changes and the tests that follow it
DetectAndBranch ==
    /\ up_pc = "detect"
    /\ changes' = detect_changes(original_data, modified_data)
    /\ LET pc == AfterDetectPc(dry_run, force, create_backup_file, changes')
       IN CASE pc = "returned_dry" ->
                  /\ report' = [EmptyUploadReport EXCEPT !.dry_run = TRUE]
                  /\ up_pc' = "returned"
                  /\ UNCHANGED <<new_idx, mod_idx>>
            [] pc = "returned_empty" ->
                  /\ report' = EmptyUploadReport
                  /\ up_pc' = "returned"
                  /\ UNCHANGED <<new_idx, mod_idx>>
            [] pc = "process" -> StartProcessing(changes')
            [] OTHER ->
                  /\ up_pc' = pc
                  /\ UNCHANGED <<report, new_idx, mod_idx>>
    /\ UNCHANGED <<original_data, modified_data, diff_pc, dry_run, force,
                   create_backup_file, original_file, calls, part_idx,
                   current_version, new_version_id, parts_updated, fetchVars, normVars, tokVars, poolVars, cliVars>>

\* a prompt on the terminal and the answer typed, as an entry of calls
Input(prompt, response) == Call("input", "", "None", "", JStr(prompt), response = "y")

\* input("Continue? [y/N]: ")
Confirm ==
    /\ up_pc = "confirm"
    /\ \E response \in {"y", "n"} :
          /\ calls' = Append(calls, Input("Continue?", response))
          /\ IF response # "y"
             THEN /\ report' = EmptyUploadReport
                  /\ up_pc' = "returned"
                  /\ UNCHANGED <<new_idx, mod_idx>>
             ELSE IF create_backup_file
                  THEN /\ up_pc' = "backup"
                       /\ UNCHANGED <<report, new_idx, mod_idx>>
                  ELSE StartProcessing(changes)
    /\ UNCHANGED <<diffVars, dry_run, force, create_backup_file, original_file,
                   part_idx, current_version, new_version_id, parts_updated,
                   fetchVars, normVars, tokVars, poolVars, cliVars>>

\* create_backup(client)
Backup ==
    /\ up_pc = "backup"
    /\ \E ok \in BOOLEAN :
          /\ calls' = Append(calls, Call("download", "", "None", "", JNull, ok))
          /\ IF ok \/ force
             THEN StartProcessing(changes)
             ELSE /\ up_pc' = "backup_confirm"
                  /\ UNCHANGED <<report, new_idx, mod_idx>>
    /\ UNCHANGED <<diffVars, dry_run, force, create_backup_file, original_file,
                   part_idx, current_version, new_version_id, parts_updated,
                   fetchVars, normVars, tokVars, poolVars, cliVars>>

\* input("Continue without backup? [y/N]: ")
BackupConfirm ==
    /\ up_pc = "backup_confirm"
    /\ \E response \in {"y", "n"} :
          /\ calls' = Append(calls, Input("Continue without backup?", response))
          /\ IF response # "y"
             THEN /\ report' = EmptyUploadReport
                  /\ up_pc' = "returned"
                  /\ UNCHANGED <<new_idx, mod_idx>>
             ELSE StartProcessing(changes)
    /\ UNCHANGED <<diffVars, dry_run, force, create_backup_file, original_file,
                   part_idx, current_version, new_version_id, parts_updated,
                   fetchVars, normVars, tokVars, poolVars, cliVars>>

\* one iteration of the loop over changes.new_topics
CreateTopic ==
    /\ up_pc = "new"
    /\ LET topic_id == changes.new_topics[new_idx]
           topic_data == DictGet(DictGet(modified_data, "topics", JEmptyDict), topic_id, JNull)
           body == JDict(<< <<"title", DictGet(topic_data, "title", JStr("Untitled"))>>,
                            <<"topic_type_id", DictGet(topic_data, "topic_type_id", JNull)>> >>)
       IN \E ok \in BOOLEAN :
             /\ calls' = Append(calls, Call("create", topic_id, "None", "", body, ok))
             /\ new_idx' = new_idx + 1
             /\ Goto(changes, AfterNewPc(changes, new_idx + 1),
                     IF ok
                     THEN [report EXCEPT !.created =
                              Append(@, [topic_id |-> topic_id,
                                         title |-> DictGet(topic_data, "title", JNull)])]
                     ELSE [report EXCEPT !.errors =
                              Append(@, [topic_id |-> topic_id,
                                         title |-> DictGet(topic_data, "title", JNull),
                                         error |-> "create"])])
    /\ UNCHANGED <<diffVars, dry_run, force, create_backup_file, original_file, mod_idx,
                   part_idx, current_version, new_version_id, parts_updated,
                   fetchVars, normVars, tokVars, poolVars, cliVars>>

\* lock reset, first half: client.search_topics(query="", limit=1000) and the
\* scan of its result for the topic's current version
LockResetSearch ==
    /\ up_pc = "lr_search"
    /\ \E answer \in {"raises", "absent", "snapshot", "r1"} :
          /\ calls' = Append(calls, Call("search", "", "None", "", JNull, answer # "raises"))
          /\ current_version' = CASE answer = "snapshot" -> SnapshotVersionId
                                  [] answer = "r1" -> "r1"
                                  [] OTHER -> "None"
          /\ up_pc' = IF current_version' # "None" THEN "lr_cancel" ELSE "checkout"
    /\ new_version_id' = "None"
    /\ parts_updated' = 0
    /\ part_idx' = 0
    /\ UNCHANGED <<diffVars, dry_run, force, create_backup_file, original_file, report,
                   new_idx, mod_idx, fetchVars, normVars, tokVars, poolVars, cliVars>>

\* variant of the lock reset in which a failed cancel leaves the outer try
LockResetCancelFatal ==
    /\ up_pc = "lr_cancel"
    /\ \E ok \in BOOLEAN :
          /\ calls' = Append(calls, Call("cancel", ChangeTopicId, current_version, "", JNull, ok))
          /\ up_pc' = IF ok THEN "checkout" ELSE "rollback"
          /\ report' = IF ok THEN report
                       ELSE [report EXCEPT !.errors =
                                Append(@, [topic_id |-> ChangeTopicId,
                                           title |-> DictGet(ChangeTopicData, "title", JNull),
                                           error |-> "cancel"])]
    /\ UNCHANGED <<diffVars, dry_run, force, create_backup_file, original_file,
                   new_idx, mod_idx, part_idx, current_version, new_version_id,
                   parts_updated, fetchVars, normVars, tokVars, poolVars, cliVars>>

\* lock reset, second half: client.cancel_checkout(topic_id, current_version)
LockResetCancel ==
    /\ up_pc = "lr_cancel"
    /\ \E ok \in BOOLEAN :
          calls' = Append(calls, Call("cancel", ChangeTopicId, current_version, "", JNull, ok))
    /\ up_pc' = "checkout"
    /\ UNCHANGED <<diffVars, dry_run, force, create_backup_file, original_file, report,
                   new_idx, mod_idx, part_idx, current_version, new_version_id,
                   parts_updated, fetchVars, normVars, tokVars, poolVars, cliVars>>

\* variant of the part loop that pushes every entry of changed_parts, the
\* deleted ones included
NextPushIdxAll(changed_parts, i) == i

\* the first changed part at or after position i that is pushed
RECURSIVE NextPushIdx(_, _)
NextPushIdx(changed_parts, i) ==
    IF i > Len(changed_parts) THEN i
    ELSE IF changed_parts[i].change_type \in {"new", "modified"} THEN i
         ELSE NextPushIdx(changed_parts, i + 1)

\* where the topic goes when the changed parts from position i on are left
AfterPartsPc(i) == IF i <= Len(Change.changed_parts) THEN "parts" ELSE "checkin"

\* variant of the handler that records nothing in report.errors
RecordErrorNowhere(what) == report

\* the handler of the outer try: the topic is recorded in report.errors
RecordError(what) ==
    [report EXCEPT !.errors =
        Append(@, [topic_id |-> ChangeTopicId,
                   title |-> DictGet(ChangeTopicData, "title", JNull),
                   error |-> what])]

\* variant of the title update that is attempted for every modified topic
NeedsMetadataAlways(change) == TRUE

\* if change.get("title_changed"): the title update is attempted
NeedsMetadata(change) == change.title_changed

\* client.checkout_topic(topic_id); the call's record keeps the version id
\* the service answered with
Checkout ==
    /\ up_pc = "checkout"
    /\ \/ \E v \in SessionVersions :
             /\ calls' = Append(calls, Call("checkout", ChangeTopicId, "None", "", JStr(v), TRUE))
             /\ new_version_id' = v
             /\ part_idx' = NextPushIdx(Change.changed_parts, 1)
             /\ up_pc' = IF NeedsMetadata(Change) THEN "metadata"
                         ELSE AfterPartsPc(part_idx')
             /\ report' = report
       \/ /\ calls' = Append(calls, Call("checkout", ChangeTopicId, "None", "", JNull, FALSE))
          /\ report' = RecordError("checkout")
          /\ up_pc' = "rollback"
          /\ UNCHANGED <<new_version_id, part_idx>>
    /\ UNCHANGED <<diffVars, dry_run, force, create_backup_file, original_file,
                   new_idx, mod_idx, current_version, parts_updated, fetchVars, normVars, tokVars, poolVars, cliVars>>

\* variant of the edit calls that sends the version id stored in the snapshot
EditVersionFromSnapshot == SnapshotVersionId

\* the version id passed to update_topic_metadata, update_topic_part and
\* checkin_topic: the local new_version_id
EditVersion == new_version_id

\* variant of the title update in which a failure leaves the outer try
MetadataFailurePcAborts(next_pc) == "except"

\* the except clause around update_topic_metadata: the failure is logged and
\* the topic goes on
MetadataFailurePc(next_pc) == next_pc

\* client.update_topic_metadata(topic_id, new_version_id, title=...)
UpdateMetadata ==
    /\ up_pc = "metadata"
    /\ \E ok \in BOOLEAN :
          /\ calls' = Append(calls, Call("metadata", ChangeTopicId, EditVersion, "",
                                         DictGet(ChangeTopicData, "title", JNull), ok))
          /\ IF ~ok /\ MetadataFailurePc(AfterPartsPc(part_idx)) = "except"
             THEN /\ report' = RecordError("metadata")
                  /\ up_pc' = "rollback"
             ELSE /\ report' = report
                  /\ up_pc' = IF ok THEN AfterPartsPc(part_idx)
                              ELSE MetadataFailurePc(AfterPartsPc(part_idx))
    /\ UNCHANGED <<diffVars, dry_run, force, create_backup_file, original_file,
                   new_idx, mod_idx, part_idx, current_version, new_version_id,
                   parts_updated, fetchVars, normVars, tokVars, poolVars, cliVars>>

\* variant of the part loop in which a failed part update leaves the outer try
PartFailurePcAborts(next_pc) == "except"

\* the except clause around update_topic_part: the failure is logged and the
\* loop goes on
PartFailurePc(next_pc) == next_pc

\* variant of the part loop that counts every attempted part update
PartsUpdatedCountsAttempts(ok) == parts_updated + 1

\* parts_updated += 1 after update_topic_part, skipped when the call raises
PartsUpdatedAfter(ok) == IF ok THEN parts_updated + 1 ELSE parts_updated

\* one pushed entry of the loop over change["changed_parts"]
UpdatePart ==
    /\ up_pc = "parts"
    /\ LET part_id == Change.changed_parts[part_idx].part_id
           part_data == DictGet(DictGet(ChangeTopicData, "parts", JEmptyDict),
                                part_id, JEmptyDict)
           next_idx == NextPushIdx(Change.changed_parts, part_idx + 1)
       IN \E ok \in BOOLEAN :
             /\ calls' = Append(calls, Call("part", ChangeTopicId, EditVersion,
                                            part_id, part_data, ok))
             /\ IF ok
                THEN /\ parts_updated' = PartsUpdatedAfter(TRUE)
                     /\ part_idx' = next_idx
                     /\ up_pc' = AfterPartsPc(next_idx)
                     /\ report' = report
                ELSE IF PartFailurePc(AfterPartsPc(next_idx)) = "except"
                     THEN /\ report' = RecordError("part")
                          /\ up_pc' = "rollback"
                          /\ UNCHANGED <<parts_updated, part_idx>>
                     ELSE /\ parts_updated' = PartsUpdatedAfter(FALSE)
                          /\ part_idx' = next_idx
                          /\ up_pc' = PartFailurePc(AfterPartsPc(next_idx))
                          /\ report' = report
    /\ UNCHANGED <<diffVars, dry_run, force, create_backup_file, original_file,
                   new_idx, mod_idx, current_version, new_version_id, fetchVars, normVars, tokVars, poolVars, cliVars>>

\* client.checkin_topic(topic_id, new_version_id)
Checkin ==
    /\ up_pc = "checkin"
    /\ \E ok \in BOOLEAN :
          /\ calls' = Append(calls, Call("checkin", ChangeTopicId, EditVersion, "", JNull, ok))
          /\ IF ok
             THEN /\ mod_idx' = mod_idx + 1
                  /\ Goto(changes, AfterModifiedPc(mod_idx + 1),
                          [report EXCEPT !.updated =
                              Append(@, [topic_id |-> ChangeTopicId,
                                         title |-> DictGet(ChangeTopicData, "title", JNull),
                                         parts_updated |-> parts_updated])])
             ELSE /\ mod_idx' = mod_idx
                  /\ report' = RecordError("checkin")
                  /\ up_pc' = "rollback"
    /\ UNCHANGED <<diffVars, dry_run, force, create_backup_file, original_file,
                   new_idx, part_idx, current_version, new_version_id, parts_updated,
                   fetchVars, normVars, tokVars, poolVars, cliVars>>

\* variant of the handler that moves on to the next topic without the
\* compensating cancel
RollbackWithoutCancel ==
    /\ up_pc = "rollback"
    /\ mod_idx' = mod_idx + 1
    /\ Goto(changes, AfterModifiedPc(mod_idx + 1), report)
    /\ UNCHANGED <<diffVars, dry_run, force, create_backup_file, original_file, calls,
                   new_idx, part_idx, current_version, new_version_id, parts_updated,
                   fetchVars, normVars, tokVars, poolVars, cliVars>>

\* the handler's client.cancel_checkout(topic_id, version_id)
RollbackCancel ==
    /\ up_pc = "rollback"
    /\ \E ok \in BOOLEAN :
          calls' = Append(calls, Call("cancel", ChangeTopicId, SnapshotVersionId, "", JNull, ok))
    /\ mod_idx' = mod_idx + 1
    /\ Goto(changes, AfterModifiedPc(mod_idx + 1), report)
    /\ UNCHANGED <<diffVars, dry_run, force, create_backup_file, original_file,
                   new_idx, part_idx, current_version, new_version_id, parts_updated,
                   fetchVars, normVars, tokVars, poolVars, cliVars>>

(***************************************************************************)
(* Token lifecycle manager and authenticated request gateway               *)
(* (AskDelphiClient).  The portal, the publication's token endpoints, the  *)
(* editing API and the cache file system are the environment.              *)
(***************************************************************************)
\* Python None for the optional string fields
PyNone == "None"

\* truth value of an optional string: None and "" are falsy
Truthy(v) == v # PyNone /\ v # ""

\* safety margin of the cached API token, seconds
ExpiryMargin == 300

\* lifetime assumed for a token whose expiry cannot be read, seconds
DefaultLifetime == 3600

\* the in-memory Credential of the client
Credential ==
    [access_token |-> access_token, refresh_token |-> refresh_token,
     publication_url |-> publication_url, api_token |-> api_token,
     api_token_expiry |-> api_token_expiry]

\* one entry of the record kept of the running operation: a network call
\* ("portal", "refresh", "derive", "api"), a cache write ("save") or the
\* completion of _get_api_token ("ensured")
Event(ev, bearer, ok, tok, body) ==
    [ev |-> ev, bearer |-> bearer, ok |-> ok, tok |-> tok, body |-> body]

\* outcomes of a stretch of _get_api_token: go on to a network call, return
\* the token, or raise
CallNext(pc) == [k |-> "call", v |-> pc]
Return(token) == [k |-> "ret", v |-> token]
Raise(error) == [k |-> "raise", v |-> error]

\* control state of the client after a step
Ctl(pc, phase, result, value, token) ==
    [pc |-> pc, phase |-> phase, result |-> result, value |-> value, token |-> token]

\* variant of the validity test that never trusts the cached token
ApiTokenValidNever(c, t) == FALSE

\* _get_api_token: "we have a valid token"
ApiTokenValid(c, t) ==
    Truthy(c.api_token) /\ t < c.api_token_expiry - ExpiryMargin

\* variant of the refresh trigger that waits until the token has expired
RefreshDueOnlyExpired(c, t) ==
    Truthy(c.refresh_token) /\ t >= c.api_token_expiry

\* _get_api_token: "try to refresh if token is expired"
RefreshDue(c, t) ==
    Truthy(c.refresh_token) /\ t >= c.api_token_expiry - ExpiryMargin

\* _refresh_tokens: the call is made unless refresh token or URL is missing
RefreshCallable(c) == Truthy(c.refresh_token) /\ Truthy(c.publication_url)

\* _get_api_token, from "Get new API token" to the derivation call
DeriveGate(c) ==
    IF ~Truthy(c.access_token) \/ ~Truthy(c.publication_url)
    THEN Raise("NotAuthenticated")
    ELSE CallNext("derive")

\* _get_api_token, from its entry to its first network call
GetApiTokenEntry(c, t) ==
    IF ApiTokenValid(c, t) THEN Return(c.api_token)
    ELSE IF RefreshDue(c, t) /\ RefreshCallable(c) THEN CallNext("refresh")
    ELSE DeriveGate(c)

\* _save_tokens: the content written to the cache file (the file is writable)
save_tokens(c) ==
    [access_token |-> c.access_token, refresh_token |-> c.refresh_token,
     publication_url |-> c.publication_url]

\* the cache file before anything was stored in it
NoCache ==
    [access_token |-> PyNone, refresh_token |-> PyNone, publication_url |-> PyNone]

\* cache files left by an earlier session
CacheFiles ==
    { NoCache,
      [access_token |-> "a0", refresh_token |-> "r0",
       publication_url |-> "https://pub.example"],
      [access_token |-> "a0", refresh_token |-> PyNone,
       publication_url |-> "https://pub.example"] }

\* urlparse(full_url): scheme and host of the URL the portal returns
UrlBase(full_url) ==
    IF full_url = "https://pub.example/nl-NL/Project/page" THEN "https://pub.example"
    ELSE "://"

\* authenticate: "Use portal code"
PortalGate(portal_cd) ==
    IF ~Truthy(portal_cd) THEN Ctl("idle", "fresh", "raised", "NoPortalCode", PyNone)
    ELSE Ctl("portal", "fresh", "none", PyNone, PyNone)

\* variant of the gateway that sends the request with the stored token when
\* no token could be obtained
TokenFailureInRequestSends(error, stored) ==
    Ctl("api", "none", "none", PyNone, stored)

\* _request: an exception of _get_api_token leaves _request
TokenFailureInRequest(error, stored) ==
    Ctl("idle", "none", "raised", error, PyNone)

\* what the caller of _get_api_token does with its outcome
AfterGetApiToken(op, phase, portal_cd, out, stored) ==
    CASE out.k = "call" -> Ctl(out.v, phase, "none", PyNone, PyNone)
      [] out.k = "ret" /\ op = "ensure_api_token" ->
            Ctl("idle", phase, "returned", out.v, PyNone)
      [] out.k = "ret" /\ op = "authenticate" ->
            Ctl("idle", phase, "returned", "True", PyNone)
      [] out.k = "ret" /\ op = "request" ->
            Ctl("api", phase, "none", PyNone, out.v)
      [] out.k = "raise" /\ op = "authenticate" /\ phase = "cached" ->
            PortalGate(portal_cd)
      [] out.k = "raise" /\ op = "request" ->
            TokenFailureInRequest(out.v, stored)
      [] OTHER -> Ctl("idle", phase, "raised", out.v, PyNone)

\* the record of the operation, extended when _get_api_token has completed
WithEnsured(tr, out) ==
    IF out.k = "call" THEN tr
    ELSE Append(tr, Event("ensured", PyNone, out.k = "ret",
                          IF out.k = "ret" THEN out.v ELSE PyNone, EmptyDict))

\* variant of the cached path test that always goes to the portal
CachedPathNever(c) == FALSE

\* authenticate: "try to get API token with existing tokens"
CachedPathAvailable(c) == Truthy(c.access_token) /\ Truthy(c.publication_url)

\* answers of the refresh endpoint
RefreshResponses ==
    { [status |-> "error", data |-> EmptyDict],
      [status |-> "not_ok", data |-> EmptyDict],
      [status |-> "bad_json", data |-> EmptyDict],
      [status |-> "ok", data |-> ("token" :> "a2") @@ ("refresh" :> "r2")],
      [status |-> "ok", data |-> ("accessToken" :> "a2")],
      [status |-> "ok", data |-> EmptyDict] }

\* _refresh_tokens: the Credential after a successful answer
Refreshed(c, data) ==
    [c EXCEPT
       !.access_token = IF Truthy(Get(data, "token", PyNone)) THEN data["token"]
                        ELSE Get(data, "accessToken", c.access_token),
       !.refresh_token = IF Truthy(Get(data, "refresh", PyNone)) THEN data["refresh"]
                         ELSE Get(data, "refreshToken", c.refresh_token)]

\* the tokens the derivation endpoint hands out
JwtNames == {"eyJ-A", "eyJ-B"}

\* token.startswith("eyJ")
StartsWithEyJ(token) == token \in JwtNames

\* answers of the derivation endpoint at time t; payload is the decoded
\* second segment of the token, decodes tells whether it can be decoded
DeriveResponses(t) ==
    { [status |-> "error", token |-> PyNone, decodes |-> FALSE, payload |-> EmptyDict],
      [status |-> "not_ok", token |-> PyNone, decodes |-> FALSE, payload |-> EmptyDict],
      [status |-> "html", token |-> PyNone, decodes |-> FALSE, payload |-> EmptyDict],
      [status |-> "ok", token |-> "not-a-jwt", decodes |-> FALSE, payload |-> EmptyDict],
      [status |-> "ok", token |-> "eyJ-A", decodes |-> TRUE,
       payload |-> ("exp" :> t + 600)],
      [status |-> "ok", token |-> "eyJ-B", decodes |-> TRUE, payload |-> EmptyDict],
      [status |-> "ok", token |-> "eyJ-B", decodes |-> FALSE, payload |-> EmptyDict] }

\* variant of the derivation that leaves the stored expiry unset
JwtExpiryUnset(resp, t) == 0

\* _get_api_token: "Parse JWT expiry"
JwtExpiry(resp, t) ==
    IF resp.decodes THEN Get(resp.payload, "exp", t + DefaultLifetime)
    ELSE t + DefaultLifetime

\* answers of the portal to the code exchange
PortalResponses ==
    { [status |-> "error", data |-> EmptyDict],
      [status |-> "not_ok", data |-> EmptyDict],
      [status |-> "bad_json", data |-> EmptyDict],
      [status |-> "ok",
       data |-> ("accessToken" :> "a1") @@ ("refreshToken" :> "r1")
                  @@ ("url" :> "https://pub.example/nl-NL/Project/page")],
      [status |-> "ok",
       data |-> ("accessToken" :> "a1")
                  @@ ("url" :> "https://pub.example/nl-NL/Project/page")],
      [status |-> "ok",
       data |-> ("refreshToken" :> "r1")
                  @@ ("url" :> "https://pub.example/nl-NL/Project/page")],
      [status |-> "ok",
       data |-> ("accessToken" :> "a1") @@ ("refreshToken" :> "r1")],
      [status |-> "ok", data |-> EmptyDict] }

\* authenticate: "Extract tokens"
Exchanged(c, data) ==
    [c EXCEPT
       !.access_token = Get(data, "accessToken", PyNone),
       !.refresh_token = Get(data, "refreshToken", PyNone),
       !.publication_url = IF Truthy(Get(data, "url", ""))
                           THEN UrlBase(data["url"]) ELSE ""]

\* variant of the check of the exchanged credential that looks at the token only
ExchangeMalformedTokenOnly(c) == ~Truthy(c.access_token)

\* authenticate: the exchanged credential lacks the token or the URL
ExchangeMalformed(c) == ~Truthy(c.access_token) \/ ~Truthy(c.publication_url)

\* a JSON boolean
JBool(b) == [t |-> "bool", s |-> IF b THEN "true" ELSE "false", items |-> <<>>]

\* truth value of a JSON value in Python
PyTruthy(v) ==
    CASE v.t = "bool" -> v.s = "true"
      [] v.t = "null" -> FALSE
      [] v.t = "str" -> v.s # ""
      [] OTHER -> v.items # <<>>

\* response.ok
ResponseOk(status) == status < 400

\* variant of the envelope handling that never unwraps
HandleResponseVerbatim(status, data) ==
    IF ~ResponseOk(status) THEN [k |-> "raise", v |-> JNull]
    ELSE [k |-> "ret", v |-> data]

\* _request, from the response to its result
HandleResponse(status, data) ==
    IF ~ResponseOk(status) THEN [k |-> "raise", v |-> JNull]
    ELSE IF IsDict(data) /\ HasKey(data, "success")
         THEN IF ~PyTruthy(DictGet(data, "success", JNull))
              THEN [k |-> "raise", v |-> DictGet(data, "errorMessage", JStr("Unknown error"))]
              ELSE [k |-> "ret", v |-> DictGet(data, "response", data)]
         ELSE [k |-> "ret", v |-> data]


\* a response payload
Payload == JDict(<< <<"topicId", JStr("t1")>> >>)

\* JSON bodies the editing API answers with
Bodies ==
    { JDict(<< <<"success", JBool(TRUE)>>, <<"response", Payload>> >>),
      JDict(<< <<"success", JBool(TRUE)>>, <<"response", JNull>> >>),
      JDict(<< <<"success", JBool(TRUE)>>, <<"topicId", JStr("t1")>> >>),
      JDict(<< <<"success", JBool(FALSE)>>, <<"errorMessage", JStr("locked")>> >>),
      JDict(<< <<"success", JBool(FALSE)>>, <<"response", Payload>> >>),
      JDict(<< <<"success", JNull>>, <<"response", Payload>> >>),
      Payload,
      JList(<< <<"", Payload>> >>),
      JStr("ok"),
      JNull }

\* answers of the editing API: a status code and a JSON body
ApiResponses ==
    [status : {200}, data : Bodies]
      \cup { [status |-> 404, data |-> Payload],
             [status |-> 500,
              data |-> JDict(<< <<"success", JBool(TRUE)>>, <<"response", Payload>> >>)] }

TokIdle ==
    /\ tok_pc = "idle" /\ tok_op = "none" /\ auth_phase = "none" /\ code = PyNone
    /\ req_token = PyNone /\ tok_result = "none" /\ tok_value = PyNone
    /\ response_status = 0 /\ response_data = JNull
    /\ access_token = PyNone /\ refresh_token = PyNone /\ publication_url = PyNone
    /\ api_token = PyNone /\ api_token_expiry = 0
    /\ token_cache = NoCache /\ portal_code = PyNone /\ now = 0
    /\ at_entry = [cred |-> Credential, cache |-> token_cache, now |-> now]
    /\ trace = <<>>

\* __init__: the token fields are None, then _load_tokens reads the cache file
TokInit ==
    /\ tok_pc = "idle" /\ tok_op = "none" /\ auth_phase = "none" /\ code = PyNone
    /\ req_token = PyNone /\ tok_result = "none" /\ tok_value = PyNone
    /\ response_status = 0 /\ response_data = JNull
    /\ token_cache \in CacheFiles
    /\ access_token = token_cache.access_token
    /\ refresh_token = token_cache.refresh_token
    /\ publication_url = token_cache.publication_url
    /\ api_token = PyNone /\ api_token_expiry = 0
    /\ portal_code \in {PyNone, "code"}
    /\ now = 0
    /\ at_entry = [cred |-> Credential, cache |-> token_cache, now |-> now]
    /\ trace = <<>>

\* one step of the running operation: the Credential, the cache file, the
\* record of the operation and the control state it leaves
Commit(c, cache, tr, ctl) ==
    /\ access_token' = c.access_token
    /\ refresh_token' = c.refresh_token
    /\ publication_url' = c.publication_url
    /\ api_token' = c.api_token
    /\ api_token_expiry' = c.api_token_expiry
    /\ token_cache' = cache
    /\ trace' = tr
    /\ tok_pc' = ctl.pc /\ auth_phase' = ctl.phase
    /\ tok_result' = ctl.result /\ tok_value' = ctl.value /\ req_token' = ctl.token

\* the caller enters an operation: what it sees of the client at that time
Enter(op) ==
    /\ tok_pc = "idle"
    /\ tok_op' = op
    /\ at_entry' = [cred |-> Credential, cache |-> token_cache, now |-> now]
    /\ response_status' = 0 /\ response_data' = JNull
    /\ UNCHANGED <<portal_code, now, fetchVars, normVars, diffVars, upVars, poolVars, cliVars>>

\* a step inside an operation
Within(pc) ==
    /\ tok_pc = pc
    /\ UNCHANGED <<tok_op, at_entry, code, portal_code, now, fetchVars, normVars,
                   diffVars, upVars, poolVars, cliVars>>

\* _get_api_token called by the user of the client
EnsureApiTokenCall ==
    /\ Enter("ensure_api_token")
    /\ code' = PyNone
    /\ LET out == GetApiTokenEntry(Credential, now)
       IN Commit(Credential, token_cache, WithEnsured(<<>>, out),
                 AfterGetApiToken("ensure_api_token", "none", PyNone, out, api_token))

\* authenticate, up to its first network call
AuthenticateCall ==
    /\ Enter("authenticate")
    /\ \E arg \in {PyNone, "code"} :
         LET cd == IF Truthy(arg) THEN arg ELSE portal_code
             out == GetApiTokenEntry(Credential, now)
         IN /\ code' = cd
            /\ IF CachedPathAvailable(Credential)
               THEN Commit(Credential, token_cache, WithEnsured(<<>>, out),
                           AfterGetApiToken("authenticate", "cached", cd, out, api_token))
               ELSE Commit(Credential, token_cache, <<>>, PortalGate(cd))

\* _request, up to its first network call
RequestCall ==
    /\ Enter("request")
    /\ code' = PyNone
    /\ LET out == GetApiTokenEntry(Credential, now)
       IN Commit(Credential, token_cache, WithEnsured(<<>>, out),
                 AfterGetApiToken("request", "none", PyNone, out, api_token))

\* _refresh_tokens: the refresh call and what follows it in _get_api_token,
\* up to the derivation call
RefreshCall ==
    /\ Within("refresh")
    /\ UNCHANGED <<response_status, response_data>>
    /\ \E resp \in RefreshResponses :
         LET c == Credential
             ok == resp.status = "ok"
             c2 == IF ok THEN Refreshed(c, resp.data) ELSE c
             cache2 == IF ok THEN save_tokens(c2) ELSE token_cache
             tr == Append(trace, Event("refresh", c.access_token, ok, PyNone, resp.data))
                     \o (IF ok THEN <<Event("save", PyNone, TRUE, PyNone, EmptyDict)>>
                         ELSE <<>>)
             out == DeriveGate(c2)
         IN Commit(c2, cache2, WithEnsured(tr, out),
                   AfterGetApiToken(tok_op, auth_phase, code, out, c2.api_token))

\* _get_api_token: the derivation call and what follows it
DeriveCall ==
    /\ Within("derive")
    /\ UNCHANGED <<response_status, response_data>>
    /\ \E resp \in DeriveResponses(now) :
         LET c == Credential
             ok == resp.status = "ok" /\ StartsWithEyJ(resp.token)
             c2 == IF ok THEN [c EXCEPT !.api_token = resp.token,
                                        !.api_token_expiry = JwtExpiry(resp, now)]
                   ELSE c
             tr == Append(trace, Event("derive", c.access_token, ok,
                                       IF ok THEN resp.token ELSE PyNone, EmptyDict))
             out == IF ok THEN Return(resp.token) ELSE Raise("TokenDerivationFailed")
         IN Commit(c2, token_cache, WithEnsured(tr, out),
                   AfterGetApiToken(tok_op, auth_phase, code, out, c2.api_token))

\* authenticate: the portal-code exchange and what follows it, up to the
\* derivation call
PortalCall ==
    /\ Within("portal")
    /\ UNCHANGED <<response_status, response_data>>
    /\ \E resp \in PortalResponses :
         LET c == Credential
             ok == resp.status = "ok"
             c2 == IF ok THEN Exchanged(c, resp.data) ELSE c
             ev == Event("portal", code, ok, PyNone, resp.data)
             out == GetApiTokenEntry(c2, now)
         IN IF ~ok
            THEN Commit(c, token_cache, Append(trace, ev),
                        Ctl("idle", "fresh", "raised", "AuthenticationFailed", PyNone))
            ELSE IF ExchangeMalformed(c2)
            THEN Commit(c2, token_cache, Append(trace, ev),
                        Ctl("idle", "fresh", "raised", "ProtocolError", PyNone))
            ELSE Commit(c2, save_tokens(c2),
                        WithEnsured(Append(trace, ev)
                                      \o <<Event("save", PyNone, TRUE, PyNone, EmptyDict)>>,
                                    out),
                        AfterGetApiToken("authenticate", "fresh", code, out, c2.api_token))

\* _request: the API call and the handling of its response
ApiCall ==
    /\ Within("api")
    /\ \/ /\ Commit(Credential, token_cache,
                    Append(trace, Event("api", req_token, FALSE, PyNone, JNull)),
                    Ctl("idle", "none", "raised", "RequestFailed", PyNone))
          /\ response_status' = 0 /\ response_data' = JNull
       \/ \E resp \in ApiResponses :
            LET status == resp.status
                h == HandleResponse(status, resp.data)
            IN /\ Commit(Credential, token_cache,
                         Append(trace, Event("api", req_token, ResponseOk(status),
                                             PyNone, resp.data)),
                         IF h.k = "raise"
                         THEN Ctl("idle", "none", "raised", "ApiError", PyNone)
                         ELSE Ctl("idle", "none", "returned", "data", PyNone))
               /\ response_status' = status
               /\ response_data' = IF h.k = "ret" THEN h.v ELSE JNull

\* time passes between two operations
Tick ==
    /\ tok_pc = "idle"
    /\ now < MaxClock
    /\ now' = now + 400
    /\ UNCHANGED <<tok_pc, tok_op, auth_phase, code, req_token, tok_result, tok_value,
                   response_status, response_data, access_token, refresh_token, publication_url,
                   api_token, api_token_expiry, token_cache, portal_code, at_entry, trace,
                   fetchVars, normVars, diffVars, upVars, poolVars, cliVars>>

(***************************************************************************)
(* Worker pool of the bulk fetch: download_all_content with parts.         *)
(***************************************************************************)
PoolIdle ==
    /\ pool_pc = "idle"
    /\ workers = 0
    /\ remote = <<>>
    /\ pool_topics = <<>>
    /\ submitted = 0
    /\ running = {}
    /\ topics_dict = <<>>

\* one item of the topic list; version "None" stands for an item without
\* topicVersionId and topicVersionKey
ListedTopic(topic_id, version) == [topicId |-> topic_id, topicVersionId |-> version]

\* the topic lists and the remote content the pool is run on: what
\* get_topic_parts answers ("error" when it raises) and the targetTopicId of
\* the relations get_topic_relations answers, for every listed topic
PoolTopicLists ==
    {<<ListedTopic("A", "v1"), ListedTopic("B", "v1"), ListedTopic("C", v)>> :
        v \in {"v1", "None"}}
PoolRemotes ==
    {[t \in {"A", "B", "C"} |->
        CASE t = "A" -> [parts |-> pa, children |-> ca]
          [] t = "B" -> [parts |-> "c1", children |-> cb]
          [] OTHER -> [parts |-> "c1", children |-> <<>>]] :
        pa \in {"c1", "error"},
        ca \in {<<>>, <<"C">>},
        cb \in {<<>>, <<"C">>, <<"C", "A">>}}

\* topics_dict[key] = value on a dict kept in insertion order
RECURSIVE DictSet(_, _, _)
DictSet(d, key, value) ==
    IF d = <<>> THEN << <<key, value>> >>
    ELSE IF Head(d)[1] = key THEN << <<key, value>> >> \o Tail(d)
         ELSE << Head(d) >> \o DictSet(Tail(d), key, value)

\* key in topics_dict, and topics_dict[key]
DictHas(d, key) == \E i \in DOMAIN d : d[i][1] = key
DictAt(d, key) == d[CHOOSE i \in DOMAIN d : d[i][1] = key][2]

\* build_topic_entry(topic, parts_data, relations_data)
build_topic_entry(topic, parts_data, relations_data) ==
    [id |-> topic.topicId,
     version_id |-> topic.topicVersionId,
     parts |-> IF parts_data = "error" THEN "" ELSE parts_data,
     children |-> relations_data,
     parent |-> "None"]

\* fetch_topic_data(topic): the topic id (or "None") and the entry built
\* from what the service holds for the topic
fetch_topic_data(topic, rem) ==
    IF topic.topicId = "None" \/ topic.topicVersionId = "None"
    THEN <<"None", topic>>
    ELSE <<topic.topicId,
           build_topic_entry(topic, rem[topic.topicId].parts, rem[topic.topicId].children)>>

\* the body of the loop over as_completed(futures) for one future
HandleResult(d, result) ==
    IF result[1] # "None" THEN DictSet(d, result[1], result[2]) ELSE d

\* the inner loop of "Build parent relationships" for one topic: every listed
\* child that is exported and has no parent yet gets this topic as parent
RECURSIVE AdoptChildren(_, _, _)
AdoptChildren(d, parent_id, children) ==
    IF children = <<>> THEN d
    ELSE LET child_id == Head(children)
             adopted ==
                 IF DictHas(d, child_id) /\ DictAt(d, child_id).parent = "None"
                 THEN DictSet(d, child_id, [DictAt(d, child_id) EXCEPT !.parent = parent_id])
                 ELSE d
         IN AdoptChildren(adopted, parent_id, Tail(children))

\* the outer loop of "Build parent relationships", over topics_dict.items()
\* from position i on
RECURSIVE BuildParentsFrom(_, _)
BuildParentsFrom(d, i) ==
    IF i > Len(d) THEN d
    ELSE BuildParentsFrom(AdoptChildren(d, d[i][1], d[i][2].children), i + 1)

\* download_all_content up to executor.submit of every topic
OpenPool ==
    /\ pool_pc = "idle"
    /\ workers' \in 1..MaxWorkers
    /\ remote' \in PoolRemotes
    /\ pool_topics' \in PoolTopicLists
    /\ pool_pc' = "pool"
    /\ UNCHANGED <<submitted, running, topics_dict,
                   fetchVars, normVars, diffVars, upVars, tokVars, cliVars>>

\* a free worker takes the next future of the queue
WorkerPicksUp ==
    /\ pool_pc = "pool"
    /\ submitted < Len(pool_topics)
    /\ Cardinality(running) < workers
    /\ submitted' = submitted + 1
    /\ running' = running \cup {submitted + 1}
    /\ UNCHANGED <<pool_pc, workers, remote, pool_topics, topics_dict,
                   fetchVars, normVars, diffVars, upVars, tokVars, cliVars>>

\* the exit of the pool when nothing is queued or running any more
AfterFuturePc(started, left) ==
    IF started = Len(pool_topics) /\ left = {} THEN "parents" ELSE "pool"

\* one of the running futures completes and as_completed hands it to the
\* main thread, which stores its entry
FutureCompletes ==
    /\ pool_pc = "pool"
    /\ \E i \in running :
          /\ topics_dict' = HandleResult(topics_dict, fetch_topic_data(pool_topics[i], remote))
          /\ running' = running \ {i}
          /\ pool_pc' = AfterFuturePc(submitted, running')
    /\ UNCHANGED <<workers, remote, pool_topics, submitted,
                   fetchVars, normVars, diffVars, upVars, tokVars, cliVars>>

\* "Build parent relationships from children"
BuildParents ==
    /\ pool_pc = "parents"
    /\ topics_dict' = BuildParentsFrom(topics_dict, 1)
    /\ pool_pc' = "done"
    /\ UNCHANGED <<workers, remote, pool_topics, submitted, running,
                   fetchVars, normVars, diffVars, upVars, tokVars, cliVars>>

(***************************************************************************)
(* Workflow and delete calls of AskDelphiClient and TopicTools.            *)
(***************************************************************************)
CliIdle ==
    /\ cli_pc = "idle"
    /\ topic_version_id = "None"
    /\ requests = <<>>
    /\ cli_ops = 0

\* one request sent through _request: the operation it belongs to, the method
\* that sent it, the HTTP method, the API version of its endpoint, what it asks
\* for, the action code of its body (-1 without one), the topic version id it
\* carries, whether it came back without an exception and the topic version
\* id read from its answer; an entry of kind "enter" records the entry of
\* delete_topic with the topic version id passed to it
Request(op, caller, method, api, kind, action, version, ok, answer) ==
    [op |-> op, caller |-> caller, method |-> method, api |-> api, kind |-> kind,
     action |-> action, version |-> version, ok |-> ok, answer |-> answer]

\* the methods that send a workflow action, the workflow operation each of
\* them performs, and the API version of its workflowstate endpoint
WorkflowCallers ==
    {"AskDelphiClient.checkout_topic", "AskDelphiClient.checkin_topic",
     "AskDelphiClient.cancel_checkout", "TopicTools.checkout", "TopicTools.checkin"}
WorkflowIntent(caller) ==
    CASE caller \in {"AskDelphiClient.checkout_topic", "TopicTools.checkout"} -> "checkout"
      [] caller \in {"AskDelphiClient.checkin_topic", "TopicTools.checkin"} -> "checkin"
      [] OTHER -> "cancel"
WorkflowApi(caller) ==
    IF caller \in {"TopicTools.checkout", "TopicTools.checkin"} THEN "v1" ELSE "v3"

\* the "action" of the body each method sends
WorkflowAction(caller) ==
    CASE caller = "AskDelphiClient.checkout_topic" -> 0
      [] caller = "AskDelphiClient.checkin_topic" -> 1
      [] caller = "AskDelphiClient.cancel_checkout" -> 2
      [] caller = "TopicTools.checkin" -> 0
      [] caller = "TopicTools.checkout" -> 1

\* the topic version id the body carries
WorkflowVersion(caller) ==
    IF caller \in {"AskDelphiClient.checkin_topic", "AskDelphiClient.cancel_checkout"}
    THEN "v0" ELSE PyNone

\* result.get("topicVersionId") or result.get("topicVersionKey") for the
\* answers of a checkout or of a workflow state lookup
AnsweredVersions == {"v1", PyNone}

\* if topic_version_id: ... else: ... of delete_topic
DeletePathPc(version) == IF version # PyNone THEN "del_v3" ELSE "del_v1"

\* what follows a v3 delete
AfterV3PcAlwaysV2(ok) == "del_v2"
AfterV3Pc(ok) == IF ok THEN "returned" ELSE "del_v2"

SendRequest(req) == requests' = Append(requests, req)

\* checkout_topic, checkin_topic, cancel_checkout of AskDelphiClient and
\* checkout, checkin of TopicTools
WorkflowCall ==
    /\ cli_pc = "idle"
    /\ cli_ops < MaxCliOps
    /\ cli_ops' = cli_ops + 1
    /\ \E caller \in WorkflowCallers, ok \in BOOLEAN :
          SendRequest(Request(cli_ops + 1, caller, "POST", WorkflowApi(caller), "workflow",
                              WorkflowAction(caller), WorkflowVersion(caller), ok, PyNone))
    /\ UNCHANGED <<cli_pc, topic_version_id,
                   fetchVars, normVars, diffVars, upVars, tokVars, poolVars>>

\* delete_topic(topic_id, topic_version_id) is entered
DeleteTopicCall ==
    /\ cli_pc = "idle"
    /\ cli_ops < MaxCliOps
    /\ cli_ops' = cli_ops + 1
    /\ topic_version_id' \in {PyNone, "v0"}
    /\ SendRequest(Request(cli_ops + 1, "delete_topic", "", "", "enter", -1,
                           topic_version_id', TRUE, PyNone))
    /\ cli_pc' = "del_checkout"
    /\ UNCHANGED <<fetchVars, normVars, diffVars, upVars, tokVars, poolVars>>

\* step 1 of delete_topic: the checkout; its answer replaces the version id,
\* its failure leads to the workflow state lookup when no id was passed
DeleteCheckout ==
    /\ cli_pc = "del_checkout"
    /\ \/ \E v \in AnsweredVersions :
            /\ SendRequest(Request(cli_ops, "AskDelphiClient.checkout_topic", "POST", "v3",
                                   "workflow", WorkflowAction("AskDelphiClient.checkout_topic"),
                                   PyNone, TRUE, v))
            /\ topic_version_id' = v
            /\ cli_pc' = DeletePathPc(v)
       \/ /\ SendRequest(Request(cli_ops, "AskDelphiClient.checkout_topic", "POST", "v3",
                                 "workflow", WorkflowAction("AskDelphiClient.checkout_topic"),
                                 PyNone, FALSE, PyNone))
          /\ topic_version_id' = topic_version_id
          /\ cli_pc' = IF topic_version_id = PyNone THEN "del_state"
                       ELSE DeletePathPc(topic_version_id)
    /\ UNCHANGED <<cli_ops, fetchVars, normVars, diffVars, upVars, tokVars, poolVars>>

\* get_topic_workflow_state after a failed checkout; its failure is only logged
DeleteWorkflowState ==
    /\ cli_pc = "del_state"
    /\ \/ \E v \in AnsweredVersions :
            /\ SendRequest(Request(cli_ops, "delete_topic", "GET", "v3", "state", -1, PyNone, TRUE, v))
            /\ topic_version_id' = v
            /\ cli_pc' = DeletePathPc(v)
       \/ /\ SendRequest(Request(cli_ops, "delete_topic", "GET", "v3", "state", -1, PyNone, FALSE, PyNone))
          /\ topic_version_id' = topic_version_id
          /\ cli_pc' = DeletePathPc(topic_version_id)
    /\ UNCHANGED <<cli_ops, fetchVars, normVars, diffVars, upVars, tokVars, poolVars>>

\* the v3 DELETE of the topic version, returned when it succeeds
DeleteV3 ==
    /\ cli_pc = "del_v3"
    /\ \E ok \in BOOLEAN :
          /\ SendRequest(Request(cli_ops, "delete_topic", "DELETE", "v3", "delete", -1,
                                 topic_version_id, ok, PyNone))
          /\ cli_pc' = AfterV3Pc(ok)
    /\ UNCHANGED <<cli_ops, topic_version_id,
                   fetchVars, normVars, diffVars, upVars, tokVars, poolVars>>

\* the v2 DELETE of the topic version, returned or raised
DeleteV2 ==
    /\ cli_pc = "del_v2"
    /\ \E ok \in BOOLEAN :
          /\ SendRequest(Request(cli_ops, "delete_topic", "DELETE", "v2", "delete", -1,
                                 topic_version_id, ok, PyNone))
          /\ cli_pc' = IF ok THEN "returned" ELSE "raised"
    /\ UNCHANGED <<cli_ops, topic_version_id,
                   fetchVars, normVars, diffVars, upVars, tokVars, poolVars>>

\* the v1 DELETE of the topic, returned or raised
DeleteV1 ==
    /\ cli_pc = "del_v1"
    /\ \E ok \in BOOLEAN :
          /\ SendRequest(Request(cli_ops, "delete_topic", "DELETE", "v1", "delete", -1,
                                 PyNone, ok, PyNone))
          /\ cli_pc' = IF ok THEN "returned" ELSE "raised"
    /\ UNCHANGED <<cli_ops, topic_version_id,
                   fetchVars, normVars, diffVars, upVars, tokVars, poolVars>>

\* delete_topic is left and the caller goes on
DeleteTopicLeft ==
    /\ cli_pc \in {"returned", "raised"}
    /\ cli_pc' = "idle"
    /\ topic_version_id' = PyNone
    /\ UNCHANGED <<requests, cli_ops, fetchVars, normVars, diffVars, upVars, tokVars, poolVars>>

(***************************************************************************)
(* Specifications.                                                         *)
(***************************************************************************)
InitPool ==
    /\ PoolIdle /\ CliIdle /\ TokIdle /\ UploadIdle /\ DiffIdle
    /\ FetchIdle /\ server_pages = <<>> /\ NormIdle /\ norm_input = JNull
NextPool == OpenPool \/ WorkerPicksUp \/ FutureCompletes \/ BuildParents
SpecPool == InitPool /\ [][NextPool]_vars

InitClient ==
    /\ CliIdle /\ PoolIdle /\ TokIdle /\ UploadIdle /\ DiffIdle
    /\ FetchIdle /\ server_pages = <<>> /\ NormIdle /\ norm_input = JNull
NextClient ==
    \/ WorkflowCall \/ DeleteTopicCall \/ DeleteCheckout \/ DeleteWorkflowState
    \/ DeleteV3 \/ DeleteV2 \/ DeleteV1 \/ DeleteTopicLeft
SpecClient == InitClient /\ [][NextClient]_vars

InitFetch ==
    /\ FetchInit /\ NormIdle /\ norm_input = JNull /\ DiffIdle /\ UploadIdle
    /\ TokIdle /\ PoolIdle /\ CliIdle
NextFetch == GetAllTopicsStart \/ SearchPageOk \/ SearchPageRaises
SpecFetch == InitFetch /\ [][NextFetch]_vars

InitNormalize ==
    /\ NormInit /\ FetchIdle /\ server_pages = <<>> /\ DiffIdle /\ UploadIdle
    /\ TokIdle /\ PoolIdle /\ CliIdle
NextNormalize == NormalizeTopic \/ NormalizeAgain
SpecNormalize == InitNormalize /\ [][NextNormalize]_vars

InitDiff ==
    /\ DiffIdle /\ FetchIdle /\ server_pages = <<>> /\ NormIdle /\ norm_input = JNull
    /\ UploadIdle /\ TokIdle /\ PoolIdle /\ CliIdle
NextDiff == LoadSnapshots \/ DetectChanges \/ DetectSelf
SpecDiff == InitDiff /\ [][NextDiff]_vars

InitUpload ==
    /\ UploadIdle /\ DiffIdle /\ FetchIdle /\ server_pages = <<>>
    /\ NormIdle /\ norm_input = JNull /\ TokIdle /\ PoolIdle /\ CliIdle
NextUpload ==
    \/ LoadModified \/ Authenticate \/ LoadOriginal \/ FetchOriginal \/ DetectAndBranch
    \/ Confirm \/ Backup \/ BackupConfirm \/ CreateTopic
    \/ LockResetSearch \/ LockResetCancel \/ Checkout \/ UpdateMetadata \/ UpdatePart
    \/ Checkin \/ RollbackCancel
SpecUpload == InitUpload /\ [][NextUpload]_vars

\* The upload from the change detection on: both snapshots are loaded from
\* their files and the client is authenticated.  Topic A has one modified
\* part, topic B is retitled or new, and a backup is asked for.
LiveOrigSnapshots ==
    {SnapshotOf(<< <<"A", TopicEntry("A", "v1", "X", BasicTags,
                                     PartsOf("basic", "absent"), FALSE)>> >> \o b) :
        b \in TopicItemsOf("B", {TopicOfKind("B", "basic")})}
LiveModSnapshots ==
    {SnapshotOf(<< <<"A", TopicEntry("A", "v1", "X", BasicTags,
                                     PartsOf("bar", "absent"), FALSE)>>,
                   <<"B", TopicOfKind("B", "retitled")>> >>)}
InitUploadLive ==
    /\ up_pc = "detect"
    /\ dry_run \in BOOLEAN
    /\ force \in BOOLEAN
    /\ create_backup_file = TRUE
    /\ original_file = TRUE
    /\ report = EmptyUploadReport
    /\ calls = << Call("authenticate", "", "None", "", JNull, TRUE) >>
    /\ new_idx = 0 /\ mod_idx = 0 /\ part_idx = 0
    /\ current_version = "None" /\ new_version_id = "None" /\ parts_updated = 0
    /\ diff_pc = "idle"
    /\ original_data \in LiveOrigSnapshots
    /\ modified_data \in LiveModSnapshots
    /\ changes = EmptyChangeReport
    /\ FetchIdle /\ server_pages = <<>> /\ NormIdle /\ norm_input = JNull /\ TokIdle /\ PoolIdle /\ CliIdle
NextUploadLive ==
    \/ DetectAndBranch \/ Confirm \/ Backup \/ BackupConfirm \/ CreateTopic
    \/ LockResetSearch \/ LockResetCancel \/ Checkout \/ UpdateMetadata \/ UpdatePart
    \/ Checkin \/ RollbackCancel

\* the steps that wait for a remote call or for an answer at the terminal
ProcessingStep ==
    \/ Confirm \/ Backup \/ BackupConfirm \/ CreateTopic
    \/ LockResetSearch \/ LockResetCancel \/ Checkout \/ UpdateMetadata \/ UpdatePart
    \/ Checkin \/ RollbackCancel

\* upload_changes runs in one thread, statement after statement: when every
\* remote call returns or raises and every prompt is answered, the step that
\* is due is eventually taken; detect_changes is a computation on the two
\* loaded snapshots that ends
SpecUploadLive ==
    /\ InitUploadLive
    /\ [][NextUploadLive]_vars
    /\ WF_vars(ProcessingStep)
    /\ <>(up_pc # "detect")

InitToken ==
    /\ TokInit /\ PoolIdle /\ CliIdle /\ FetchIdle /\ server_pages = <<>> /\ NormIdle /\ norm_input = JNull
    /\ DiffIdle /\ UploadIdle
NextToken ==
    \/ EnsureApiTokenCall \/ AuthenticateCall \/ RequestCall \/ RefreshCall
    \/ DeriveCall \/ PortalCall \/ ApiCall \/ Tick
SpecToken == InitToken /\ [][NextToken]_vars

(***************************************************************************)
(* Properties of the paginated bulk fetcher.                               *)
(***************************************************************************)
RECURSIVE Flatten(_)
Flatten(ss) == IF ss = <<>> THEN <<>> ELSE Head(ss) \o Flatten(Tail(ss))

\* the remote pages in front of the first empty one
RECURSIVE BeforeFirstEmpty(_)
BeforeFirstEmpty(ss) ==
    IF ss = <<>> \/ Head(ss) = <<>> THEN <<>>
    ELSE <<Head(ss)>> \o BeforeFirstEmpty(Tail(ss))

\* C3: get_all_topics returns exactly the concatenation, in order, of the
\* items of every page the server holds in front of its first empty page,
\* whatever totalAvailable reported on any page.
FetchAllIsConcatenation ==
    fetch_pc = "done" => all_topics = Flatten(BeforeFirstEmpty(server_pages))

\* a run that returned three items although the last reported total was one
FetchAllWitness ==
    /\ fetch_pc = "done"
    /\ Len(all_topics) = 3
    /\ total = 1
    /\ Len(search_calls) = 4

\* C4: the loop stops exactly when an empty page is received: the call that
\* received the first empty page is the last one, and after a non-empty page
\* the loop goes on even when the accumulated count has reached the
\* reported total.
FetchStopsExactlyOnEmptyPage ==
    /\ fetch_pc = "done" =>
          /\ served # <<>>
          /\ served[Len(served)] = <<>>
          /\ \A i \in 1..(Len(served) - 1) : served[i] # <<>>
          /\ Len(search_calls) = Len(served)
    /\ (served # <<>> /\ served[Len(served)] # <<>>) => fetch_pc \in {"loop", "raised"}
    /\ (served # <<>> /\ served[Len(served)] = <<>>) => fetch_pc = "done"
    /\ fetch_pc \in {"idle", "loop"} => Len(search_calls) = Len(served)
    /\ \A i \in 1..Len(served) : served[i] = ServerPage(search_calls[i])
    /\ \A i \in 1..Len(search_calls) : search_calls[i] = i - 1

\* the loop is still running although the accumulated count exceeds the total
FetchContinuesPastTotalWitness ==
    /\ fetch_pc = "loop"
    /\ Len(search_calls) >= 2
    /\ Len(all_topics) > total
    /\ total > 0

(***************************************************************************)
(* Properties of the change detection engine.                              *)
(***************************************************************************)
SeqSet(q) == {q[i] : i \in 1..Len(q)}

OrigTopics == DictGet(original_data, "topics", JEmptyDict)
ModTopics == DictGet(modified_data, "topics", JEmptyDict)
OrigTopic(id) == DictGet(OrigTopics, id, JNull)
ModTopic(id) == DictGet(ModTopics, id, JNull)

\* the entries of changes.modified_topics for a topic id
ModifiedEntriesOf(id) ==
    {i \in 1..Len(changes.modified_topics) : changes.modified_topics[i].topic_id = id}

\* C5: for every snapshot S, diff(S, S) has empty new, modified and deleted
\* collections, and every topic id of S is in unchanged.
SelfDiffIsEmpty ==
    diff_pc = "selfdetected" =>
        /\ changes.new_topics = <<>>
        /\ changes.modified_topics = <<>>
        /\ changes.deleted_topics = <<>>
        /\ SeqSet(changes.unchanged_topics) = KeySet(ModTopics)

\* a snapshot of two topics, with volatile fields, was compared with itself
SelfDiffWitness ==
    /\ diff_pc = "selfdetected"
    /\ Len(changes.unchanged_topics) = 2
    /\ HasKey(ModTopic("A"), "version_id")

\* the fingerprint of a topic: the checksum of its normalization
Fingerprint(topic) == calculate_checksum(normalize_topic(topic))

\* C6: a topic id present only in modified is in new; present only in
\* original is in deleted; present in both is in unchanged if and only if the
\* fingerprints of the two normalized topics are equal, and otherwise has
\* exactly one entry in modified.
DiffClassification ==
    diff_pc = "detected" =>
        \A id \in KeySet(OrigTopics) \cup KeySet(ModTopics) :
            /\ (id \notin KeySet(OrigTopics)) => id \in SeqSet(changes.new_topics)
            /\ (id \notin KeySet(ModTopics)) => id \in SeqSet(changes.deleted_topics)
            /\ (id \in KeySet(OrigTopics) /\ id \in KeySet(ModTopics)) =>
                  /\ id \in SeqSet(changes.unchanged_topics)
                        <=> Fingerprint(OrigTopic(id)) = Fingerprint(ModTopic(id))
                  /\ Fingerprint(OrigTopic(id)) # Fingerprint(ModTopic(id))
                        => Cardinality(ModifiedEntriesOf(id)) = 1

\* topic A differs from the original only in volatile fields and key order and
\* is unchanged, while topic B was added
DiffClassificationWitness ==
    /\ diff_pc = "detected"
    /\ changes.unchanged_topics = <<"A">>
    /\ changes.new_topics = <<"B">>
    /\ OrigTopic("A") # ModTopic("A")

\* C7: after normalization none of the volatile fields occurs as a key at any
\* nesting level of the result, the tags sequence included.
RECURSIVE ContainsVolatileKey(_)
ContainsVolatileKey(v) ==
    \E i \in 1..Len(v.items) :
        \/ v.t = "dict" /\ v.items[i][1] \in FIELDS_TO_IGNORE
        \/ ContainsVolatileKey(v.items[i][2])

NormalizedHasNoVolatileKey ==
    norm_pc = "normalized" => ~ContainsVolatileKey(norm_once)

\* C8: normalization is idempotent: normalize(normalize(T)) = normalize(T).
NormalizeIdempotent ==
    norm_pc = "renormalized" => norm_twice = norm_once

\* a topic with volatile fields at the top level and inside a part was
\* normalized twice
NormalizeIdempotentWitness ==
    /\ norm_pc = "renormalized"
    /\ HasKey(DictGet(DictGet(norm_input, "parts", JEmptyDict), "p1", JEmptyDict), "version_id")
    /\ ~HasKey(DictGet(DictGet(norm_once, "parts", JEmptyDict), "p1", JEmptyDict), "version_id")
    /\ Len(norm_once.items) < Len(norm_input.items)

\* the entries of a changed_parts list for a part id
PartEntriesOf(changed_parts, part_id) ==
    {i \in 1..Len(changed_parts) : changed_parts[i].part_id = part_id}

PartEntryIs(changed_parts, part_id, change_type) ==
    /\ Cardinality(PartEntriesOf(changed_parts, part_id)) = 1
    /\ \A i \in PartEntriesOf(changed_parts, part_id) :
          changed_parts[i].change_type = change_type

\* C9: in the part-level diff of a modified topic a part id present only in
\* the modified topic yields one entry of type new, one present only in the
\* original one entry of type deleted, one present in both an entry of type
\* modified if and only if the two content values differ; a part whose name,
\* type or group differs but whose content is equal yields no entry.
PartDiffClassification ==
    diff_pc = "detected" =>
        \A e \in SeqSet(changes.modified_topics) :
            LET op == DictGet(OrigTopic(e.topic_id), "parts", JEmptyDict)
                mp == DictGet(ModTopic(e.topic_id), "parts", JEmptyDict)
            IN \A part_id \in KeySet(op) \cup KeySet(mp) :
                  /\ (part_id \notin KeySet(op)) => PartEntryIs(e.changed_parts, part_id, "new")
                  /\ (part_id \notin KeySet(mp)) =>
                        PartEntryIs(e.changed_parts, part_id, "deleted")
                  /\ (part_id \in KeySet(op) /\ part_id \in KeySet(mp)) =>
                        IF PyEq(DictGet(DictGet(op, part_id, JNull), "content", JNull),
                                DictGet(DictGet(mp, part_id, JNull), "content", JNull))
                        THEN PartEntriesOf(e.changed_parts, part_id) = {}
                        ELSE PartEntryIs(e.changed_parts, part_id, "modified")

\* topic A is modified because part p1 was renamed; its part diff is empty
PartDiffWitness ==
    /\ diff_pc = "detected"
    /\ \E e \in SeqSet(changes.modified_topics) :
          /\ e.topic_id = "A"
          /\ e.changed_parts = <<>>
          /\ ~e.title_changed
          /\ DictGet(DictGet(DictGet(OrigTopic("A"), "parts", JEmptyDict), "p1", JEmptyDict),
                     "name", JNull) = JStr("n1")
          /\ DictGet(DictGet(DictGet(ModTopic("A"), "parts", JEmptyDict), "p1", JEmptyDict),
                     "name", JNull) = JStr("n2")

\* C10: for every entry of ChangeSet.modified, title_changed is true exactly
\* when the original topic's title differs from the modified topic's title,
\* independently of which other fields changed.
TitleChangedExactly ==
    diff_pc = "detected" =>
        \A e \in SeqSet(changes.modified_topics) :
            e.title_changed <=>
                (DictGet(OrigTopic(e.topic_id), "title", JNull)
                    # DictGet(ModTopic(e.topic_id), "title", JNull))

\* the example: original {A: title X}, modified {A: title Y, B}: new = {B},
\* modified = [A with title_changed], deleted = {}
TitleChangedWitness ==
    /\ diff_pc = "detected"
    /\ KeySet(OrigTopics) = {"A"}
    /\ DictGet(OrigTopic("A"), "title", JNull) = JStr("X")
    /\ DictGet(ModTopic("A"), "title", JNull) = JStr("Y")
    /\ changes.new_topics = <<"B">>
    /\ Len(changes.modified_topics) = 1
    /\ changes.modified_topics[1].topic_id = "A"
    /\ changes.modified_topics[1].title_changed
    /\ changes.deleted_topics = <<>>

(***************************************************************************)
(* Properties of the upload orchestrator.                                  *)
(***************************************************************************)
CallIdx == 1..Len(calls)
CallsOf(op, topic_id) == {i \in CallIdx : calls[i].op = op /\ calls[i].topic_id = topic_id}
ErrorTopics == {report.errors[k].topic_id : k \in 1..Len(report.errors)}
UpdatedTopics == {report.updated[k].topic_id : k \in 1..Len(report.updated)}

\* the topics with a part-update call that failed
PartFailedTopics == {calls[i].topic_id : i \in {j \in CallIdx : calls[j].op = "part" /\ ~calls[j].ok}}

\* the cancel-checkout calls for a topic that follow its successful checkout
CancelsAfterCheckout(topic_id) ==
    {i \in CallsOf("cancel", topic_id) :
        \E c \in CallsOf("checkout", topic_id) : calls[c].ok /\ c < i}

\* C1 as stated: if a part-update call for a modified topic A fails after A's
\* checkout succeeded, then cancel-checkout is called for A exactly once, A is
\* recorded in report.errors, and checkin is never called for A.
PartFailureRollsBack ==
    up_pc = "returned" =>
        \A A \in PartFailedTopics :
            /\ Cardinality(CancelsAfterCheckout(A)) = 1
            /\ A \in ErrorTopics
            /\ CallsOf("checkin", A) = {}

\* C1 as amended: a failed part update is only logged: checkin is still called
\* for A exactly once, after the failed part update; A is recorded in
\* report.errors and one cancel-checkout follows A's checkout if and only if
\* that checkin fails, and otherwise A is recorded in report.updated and no
\* cancel-checkout follows the checkout.
PartFailureIsSwallowed ==
    up_pc = "returned" =>
        \A A \in PartFailedTopics :
            /\ Cardinality(CallsOf("checkin", A)) = 1
            /\ \A c \in CallsOf("checkin", A) :
                  /\ \A i \in CallsOf("part", A) : i < c
                  /\ calls[c].ok <=> A \in UpdatedTopics
                  /\ ~calls[c].ok <=> A \in ErrorTopics
                  /\ Cardinality(CancelsAfterCheckout(A)) = IF calls[c].ok THEN 0 ELSE 1
                  /\ \A i \in CancelsAfterCheckout(A) : c < i

\* a part update of topic A failed and A was checked in and reported updated
PartFailureWitness ==
    /\ up_pc = "returned"
    /\ "A" \in PartFailedTopics
    /\ "A" \in UpdatedTopics
    /\ CancelsAfterCheckout("A") = {}

\* C2: upload with dry_run = True issues zero mutating remote calls (create,
\* checkout, metadata update, part update, checkin, cancel-checkout, delete)
\* over the whole run, whatever the diff contains.
DryRunIssuesNoMutation ==
    dry_run => \A i \in CallIdx : calls[i].op \notin MutatingOps

\* a forced dry run over a diff with a new and a modified topic has returned
DryRunWitness ==
    /\ up_pc = "returned"
    /\ dry_run
    /\ force
    /\ report.dry_run
    /\ changes.new_topics # <<>>
    /\ changes.modified_topics # <<>>
    /\ calls # <<>>

(***************************************************************************)
(* Properties of the token lifecycle manager and the request gateway.      *)
(***************************************************************************)
TraceIdx == 1..Len(trace)
EventsOf(ev) == {i \in TraceIdx : trace[i].ev = ev}

\* round trips over the network made by the operation
NetworkEvents == {i \in TraceIdx : trace[i].ev \in {"portal", "refresh", "derive", "api"}}

\* the operation op has completed, by returning or by raising
Completed(op) == tok_pc = "idle" /\ tok_op = op

\* the operation began with a cached api_token and now < expiry - 300
ValidAtEntry ==
    /\ Truthy(at_entry.cred.api_token)
    /\ at_entry.now < at_entry.cred.api_token_expiry - ExpiryMargin

\* C11: when a cached api_token exists and now < api_token_expiry - 300,
\* ensure_api_token returns that same token, makes no network call (neither
\* refresh nor derivation) and leaves the whole Credential and the persisted
\* cache unchanged.
ValidTokenIsReused ==
    Completed("ensure_api_token") /\ ValidAtEntry =>
        /\ tok_result = "returned"
        /\ tok_value = at_entry.cred.api_token
        /\ trace = <<Event("ensured", PyNone, TRUE, at_entry.cred.api_token, EmptyDict)>>
        /\ Credential = at_entry.cred
        /\ token_cache = at_entry.cache

\* ensure_api_token has answered from a token that was still valid, with a
\* refresh token at hand
ValidTokenWitness ==
    /\ Completed("ensure_api_token")
    /\ ValidAtEntry
    /\ Truthy(at_entry.cred.refresh_token)
    /\ tok_result = "returned"

\* C12: when a refresh_token and the publication URL are known and the cached
\* api_token's expiry is within 300 seconds of now or has passed, one call of
\* ensure_api_token makes exactly one refresh attempt, and that attempt comes
\* before the derivation call.
RefreshOnceBeforeDerivation ==
    ( /\ Completed("ensure_api_token")
      /\ Truthy(at_entry.cred.refresh_token)
      /\ Truthy(at_entry.cred.publication_url)
      /\ at_entry.now >= at_entry.cred.api_token_expiry - ExpiryMargin ) =>
        /\ Cardinality(EventsOf("refresh")) = 1
        /\ \A r \in EventsOf("refresh"), d \in EventsOf("derive") : r < d

\* ensure_api_token was called with a token inside the margin but not yet
\* expired, and refreshed before it derived
RefreshTriggerWitness ==
    /\ Completed("ensure_api_token")
    /\ Truthy(at_entry.cred.api_token)
    /\ at_entry.now < at_entry.cred.api_token_expiry
    /\ at_entry.now >= at_entry.cred.api_token_expiry - ExpiryMargin
    /\ Cardinality(EventsOf("refresh")) = 1
    /\ EventsOf("derive") # {}

\* the refresh call of the operation failed
RefreshFailed == \E r \in EventsOf("refresh") : ~trace[r].ok

\* C13: if the refresh call fails, ensure_api_token does not raise because of
\* it: access_token and refresh_token keep their previous values, the
\* derivation call is still made with the unchanged access_token, and if that
\* derivation succeeds the new api_token is returned.
RefreshFailureFallsBack ==
    Completed("ensure_api_token") /\ RefreshFailed =>
        /\ access_token = at_entry.cred.access_token
        /\ refresh_token = at_entry.cred.refresh_token
        /\ \E d \in EventsOf("derive") :
              /\ \A r \in EventsOf("refresh") : r < d
              /\ trace[d].bearer = at_entry.cred.access_token
              /\ trace[d].ok =>
                    /\ tok_result = "returned"
                    /\ tok_value = trace[d].tok
                    /\ api_token = trace[d].tok

\* C14: when no valid cached api_token exists and the access_token or the
\* publication URL is missing, ensure_api_token fails with the
\* not-authenticated error and makes no call to the derivation endpoint.
MissingCredentialIsRejected ==
    ( /\ Completed("ensure_api_token")
      /\ ~ValidAtEntry
      /\ ~Truthy(at_entry.cred.access_token) \/ ~Truthy(at_entry.cred.publication_url) ) =>
        /\ tok_result = "raised"
        /\ tok_value = "NotAuthenticated"
        /\ EventsOf("derive") = {}

\* authenticate began with a cached access_token and publication URL
CachedAtEntry ==
    Truthy(at_entry.cred.access_token) /\ Truthy(at_entry.cred.publication_url)

\* the token derivation of the cached path of authenticate succeeded
CachedPathSucceeded ==
    /\ CachedAtEntry
    /\ EventsOf("ensured") # {}
    /\ \A e \in EventsOf("ensured") : (\A f \in EventsOf("ensured") : e <= f) => trace[e].ok

\* the exchange is made only when there is no cached credential or after the
\* cached path failed
ExchangeOnlyAfterCachedPath ==
    \A p \in EventsOf("portal") :
        \/ ~CachedAtEntry
        \/ \E e \in EventsOf("ensured") : e < p /\ ~trace[e].ok

\* C15 as stated: authenticate, when a cached access_token and publication URL
\* exist and the token derivation succeeds, returns success having made no
\* portal-code exchange and no network round trip other than the derivation
\* call; the exchange is made only after the cached path failed or when no
\* cached credential exists.
CachedPathOnlyDerives ==
    Completed("authenticate") =>
        /\ CachedPathSucceeded =>
              /\ tok_result = "returned"
              /\ EventsOf("portal") = {}
              /\ NetworkEvents \subseteq EventsOf("derive")
        /\ ExchangeOnlyAfterCachedPath

\* C15 as amended: authenticate, when a cached access_token and publication
\* URL exist and the token derivation succeeds, returns success having made no
\* portal-code exchange; its network round trips are those of
\* ensure_api_token: at most one refresh attempt, made when a refresh_token is
\* known and the api_token is missing or inside the margin, followed by at
\* most one derivation call.  The exchange is made only after the cached path
\* failed or when no cached credential exists.
CachedPathRefreshesAndDerives ==
    Completed("authenticate") =>
        /\ CachedPathSucceeded =>
              /\ tok_result = "returned"
              /\ EventsOf("portal") = {}
              /\ NetworkEvents = EventsOf("refresh") \cup EventsOf("derive")
              /\ Cardinality(EventsOf("refresh")) <= 1
              /\ Cardinality(EventsOf("derive")) <= 1
              /\ \A r \in EventsOf("refresh"), d \in EventsOf("derive") : r < d
              /\ EventsOf("refresh") # {} =>
                    Truthy(at_entry.cred.refresh_token) /\ ~ValidAtEntry
        /\ ExchangeOnlyAfterCachedPath

\* authenticate succeeded on the cached path after a refresh round trip
CachedPathWitness ==
    /\ Completed("authenticate")
    /\ CachedPathSucceeded
    /\ EventsOf("refresh") # {}
    /\ EventsOf("derive") # {}
    /\ tok_result = "returned"

\* exchanges answered with success status whose body lacks the access token or
\* the URL
MalformedExchanges ==
    {p \in EventsOf("portal") :
        /\ trace[p].ok
        /\ \/ ~Truthy(Get(trace[p].body, "accessToken", PyNone))
           \/ ~Truthy(Get(trace[p].body, "url", PyNone))}

\* C16: if the portal-code exchange succeeds at HTTP level but its response
\* lacks the access token or the URL, authenticate fails fatally: nothing is
\* written to the credential cache and no derivation call is made with the
\* malformed credential.
MalformedExchangeIsFatal ==
    Completed("authenticate") =>
        \A p \in MalformedExchanges :
            /\ tok_result = "raised"
            /\ tok_value = "ProtocolError"
            /\ \A i \in TraceIdx : i > p => trace[i].ev \notin {"save", "derive", "refresh"}
            /\ EventsOf("save") = {} => token_cache = at_entry.cache

\* authenticate has received an exchange answer without URL while the cache
\* held an earlier credential
MalformedExchangeWitness ==
    /\ Completed("authenticate")
    /\ \E p \in MalformedExchanges : Truthy(Get(trace[p].body, "accessToken", PyNone))
    /\ Truthy(at_entry.cache.access_token)

\* the cache file holds the access_token, refresh_token and publication URL of
\* the in-memory Credential
CacheIsCredential ==
    /\ token_cache.access_token = access_token
    /\ token_cache.refresh_token = refresh_token
    /\ token_cache.publication_url = publication_url

\* C17: whenever a Token Lifecycle Manager operation has completed, by
\* returning or by raising, the persisted cache holds the same access_token,
\* refresh_token and publication URL as the in-memory Credential; regenerating
\* the api_token alone never writes the cache.
CacheFollowsCredential ==
    tok_pc = "idle" /\ tok_op \in {"authenticate", "ensure_api_token"} =>
        /\ CacheIsCredential
        /\ ( /\ \A r \in EventsOf("refresh") : ~trace[r].ok
             /\ EventsOf("portal") = {} ) => EventsOf("save") = {}

\* the API call of the request and the body it was answered with
AnsweredCalls == {i \in EventsOf("api") : response_status # 0}

RequestCarriesEnsuredToken ==
    /\ \A i \in EventsOf("api") :
          /\ tok_op = "request"
          /\ \E e \in EventsOf("ensured") :
                e < i /\ trace[e].ok /\ trace[e].tok = trace[i].bearer
    /\ tok_op = "request" /\ (\E e \in EventsOf("ensured") : ~trace[e].ok) =>
          /\ tok_pc = "idle"
          /\ tok_result = "raised"
          /\ EventsOf("api") = {}

\* a request has failed because no token could be obtained, while an earlier
\* api_token was still stored
RequestWithoutTokenWitness ==
    /\ Completed("request")
    /\ \E e \in EventsOf("ensured") : ~trace[e].ok
    /\ Truthy(api_token)
    /\ tok_result = "raised"

\* C20: if the checkout call for a modified topic fails, that topic is recorded
\* in report.errors and no remote mutation is attempted for it afterwards: no
\* metadata update, no part update, no checkin and no other state-changing
\* remote call for that topic.
CheckoutFailureEndsTopic ==
    up_pc = "returned" =>
        \A i \in CallIdx :
            calls[i].op = "checkout" /\ ~calls[i].ok =>
                /\ calls[i].topic_id \in ErrorTopics
                /\ \A j \in CallIdx :
                      j > i /\ calls[j].topic_id = calls[i].topic_id =>
                          calls[j].op \notin MutatingOps

\* the positions of the checkout calls issued for a topic
CheckoutsOf(topic_id) == CallsOf("checkout", topic_id)

\* the topics of changes.modified_topics
ModifiedTopicIds == {changes.modified_topics[k].topic_id : k \in DOMAIN changes.modified_topics}

\* C21: when the checkout of a modified topic fails (the service refuses it
\* because the topic is locked), a lock reset is performed and the checkout is
\* tried exactly once more before the topic is recorded as failed: at the
\* return, a topic whose first checkout failed has exactly two checkout calls,
\* with a call of the lock reset between them.
LockedCheckoutIsRetried ==
    up_pc = "returned" =>
        \A i \in CallIdx :
            /\ calls[i].op = "checkout"
            /\ ~calls[i].ok
            /\ \A h \in CheckoutsOf(calls[i].topic_id) : h >= i
            => /\ Cardinality(CheckoutsOf(calls[i].topic_id)) = 2
               /\ \E j \in CheckoutsOf(calls[i].topic_id) :
                     /\ j > i
                     /\ \E r \in CallIdx :
                           i < r /\ r < j /\ calls[r].op \in {"search", "cancel"}

\* the topics whose checkout succeeded
CheckedOutTopics ==
    {calls[i].topic_id : i \in {j \in CallIdx : calls[j].op = "checkout" /\ calls[j].ok}}

\* the part-update calls issued for one part of a topic
PartCallsOf(topic_id, part_id) ==
    {i \in CallsOf("part", topic_id) : calls[i].part_id = part_id}

\* the parts of a change that are classified new or modified
PushedParts(change) ==
    {change.changed_parts[k].part_id :
        k \in {n \in DOMAIN change.changed_parts :
                  change.changed_parts[n].change_type \in {"new", "modified"}}}

\* C22: for a modified topic whose checkout succeeded, the parts with a
\* part-update call are exactly the parts classified new or modified, each
\* with exactly one call whether or not the update of a sibling failed; a part
\* classified deleted gets no call.
PartsPushedExactly ==
    up_pc = "returned" =>
        \A k \in DOMAIN changes.modified_topics :
            LET change == changes.modified_topics[k]
            IN change.topic_id \in CheckedOutTopics =>
                  /\ {calls[i].part_id : i \in CallsOf("part", change.topic_id)}
                        = PushedParts(change)
                  /\ \A p \in PushedParts(change) :
                        Cardinality(PartCallsOf(change.topic_id, p)) = 1

\* a checked-out topic with two pushed parts, the first of which failed
PartsPushedWitness ==
    /\ up_pc = "returned"
    /\ \E k \in DOMAIN changes.modified_topics :
          LET change == changes.modified_topics[k]
          IN /\ change.topic_id \in CheckedOutTopics
             /\ Cardinality(PushedParts(change)) = 2
             /\ \E i, j \in CallsOf("part", change.topic_id) :
                   i < j /\ ~calls[i].ok /\ calls[j].ok

\* the error records of a topic
ErrorsOf(topic_id) ==
    {k \in DOMAIN report.errors : report.errors[k].topic_id = topic_id}

\* C23: for a modified topic whose checkout succeeded, a metadata (title)
\* update call is issued if and only if title_changed is true; when that call
\* fails the topic goes on: every part classified new or modified still gets
\* its call, the checkin is still attempted, and an error record of the topic
\* can only come from the checkin.
TitleUpdateIsBestEffort ==
    up_pc = "returned" =>
        \A k \in DOMAIN changes.modified_topics :
            LET change == changes.modified_topics[k]
                t == change.topic_id
            IN t \in CheckedOutTopics =>
                  /\ Cardinality(CallsOf("metadata", t)) = (IF change.title_changed THEN 1 ELSE 0)
                  /\ \A m \in CallsOf("metadata", t) :
                        ~calls[m].ok =>
                            /\ \A p \in PushedParts(change) :
                                  \E i \in PartCallsOf(t, p) : i > m
                            /\ \E c \in CallsOf("checkin", t) : c > m
                            /\ \A e \in ErrorsOf(t) :
                                  /\ report.errors[e].error = "checkin"
                                  /\ \E c \in CallsOf("checkin", t) : ~calls[c].ok

\* a topic whose title update failed, whose part was pushed afterwards and
\* which was checked in and recorded as updated
TitleUpdateWitness ==
    /\ up_pc = "returned"
    /\ \E k \in DOMAIN changes.modified_topics :
          LET change == changes.modified_topics[k]
              t == change.topic_id
          IN /\ change.title_changed
             /\ PushedParts(change) # {}
             /\ \E m \in CallsOf("metadata", t) :
                   /\ ~calls[m].ok
                   /\ \E i \in CallsOf("part", t) : i > m
                   /\ \E c \in CallsOf("checkin", t) : c > m /\ calls[c].ok
             /\ t \in UpdatedTopics
             /\ t \notin ErrorTopics

\* the calls that edit a checked-out topic
EditOps == {"metadata", "part", "checkin"}

\* the version ids the two snapshots store for a topic
StoredVersionIds(topic_id) ==
    {VersionStr(DictGet(DictGet(DictGet(S, "topics", JEmptyDict), topic_id, JEmptyDict),
                        "version_id", JNull)) : S \in {original_data, modified_data}}

\* C24: every metadata-update, part-update and checkin call for a topic comes
\* after a successful checkout of that topic in the same run and carries the
\* version id that checkout returned; it never carries a version id stored in
\* a snapshot, nor the version the lock reset found on the remote side.
EditCallsCarryCheckoutVersion ==
    LET checkouts == {c \in CallIdx : calls[c].op = "checkout" /\ calls[c].ok}
        cancels == {r \in CallIdx : calls[r].op = "cancel"}
    IN \A i \in CallIdx :
          calls[i].op \in EditOps =>
              /\ \E c \in checkouts :
                    /\ c < i
                    /\ calls[c].topic_id = calls[i].topic_id
                    /\ calls[i].version = VersionStr(calls[c].arg)
              /\ calls[i].version \notin StoredVersionIds(calls[i].topic_id)
              /\ \A r \in cancels :
                    (r < i /\ calls[r].topic_id = calls[i].topic_id)
                        => calls[i].version # calls[r].version

\* a topic whose lock reset cancelled with the version id of the snapshot and
\* whose title update, part update and checkin followed its checkout
EditCallsWitness ==
    \E t \in ModifiedTopicIds :
        \E r \in CallsOf("cancel", t), c \in CallsOf("checkout", t),
           m \in CallsOf("metadata", t), p \in CallsOf("part", t),
           n \in CallsOf("checkin", t) :
            /\ r < c /\ c < m /\ m < p /\ p < n
            /\ calls[r].version \in StoredVersionIds(t)
            /\ calls[c].ok

\* the topics whose processing failed after their checkout had succeeded
FailedAfterCheckoutTopics == CheckedOutTopics \cap ErrorTopics

\* C25: when the processing of a modified topic fails after its checkout
\* succeeded, exactly one compensating cancel-checkout is attempted for the
\* topic, and that call carries the version id the checkout of this run
\* returned.
RollbackCarriesCheckoutVersion ==
    up_pc = "returned" =>
        \A t \in FailedAfterCheckoutTopics :
            /\ Cardinality(CancelsAfterCheckout(t)) = 1
            /\ \A r \in CancelsAfterCheckout(t) :
                  \E c \in CallsOf("checkout", t) :
                      c < r /\ calls[c].ok /\ calls[r].version = VersionStr(calls[c].arg)

\* "Process changes" has been entered
ProcessingStarted == new_idx >= 1

\* the topics of changes.new_topics
NewTopicIds == {changes.new_topics[k] : k \in DOMAIN changes.new_topics}

\* the topics with a failed create, checkout or checkin call
FailedTopics ==
    {calls[i].topic_id :
        i \in {j \in CallIdx : calls[j].op \in {"create", "checkout", "checkin"} /\ ~calls[j].ok}}

\* C26: a failure while one topic is processed (its create, checkout, checkin
\* or compensating cancel) does not stop the batch: once processing has
\* started and the upload has returned, every topic of changes.new_topics has
\* a create call and every topic of changes.modified_topics has a checkout
\* call, and every failed topic has exactly one record {topic_id, title,
\* error} in report.errors, the other topics none.
FailureNeverStopsBatch ==
    up_pc = "returned" /\ ProcessingStarted =>
        /\ \A t \in NewTopicIds : CallsOf("create", t) # {}
        /\ \A t \in ModifiedTopicIds : CallsOf("checkout", t) # {}
        /\ \A t \in NewTopicIds \cup ModifiedTopicIds :
              Cardinality(ErrorsOf(t)) = (IF t \in FailedTopics THEN 1 ELSE 0)
        /\ \A k \in DOMAIN report.errors :
              DOMAIN report.errors[k] = {"topic_id", "title", "error"}

\* two modified topics of which the first failed at its checkout and at its
\* compensating cancel, and the second was still checked out
FailureNeverStopsBatchWitness ==
    /\ up_pc = "returned"
    /\ \E a, b \in ModifiedTopicIds :
          /\ a # b
          /\ \E c \in CallsOf("checkout", a), r \in CallsOf("cancel", a),
                d \in CallsOf("checkout", b) :
                /\ c < r /\ r < d
                /\ ~calls[c].ok /\ ~calls[r].ok /\ calls[d].ok
          /\ a \in ErrorTopics

\* the positions of the mutating calls
MutatingCalls == {i \in CallIdx : calls[i].op \in MutatingOps}

\* the positions at which the prompt was answered with y, or with something else
Accepted(prompt) ==
    {i \in CallIdx : calls[i].op = "input" /\ calls[i].arg = JStr(prompt) /\ calls[i].ok}
Declined == {i \in CallIdx : calls[i].op = "input" /\ ~calls[i].ok}

\* the positions of a failed backup: a failed download after which the upload
\* went on (a failed download of the original ends the upload)
FailedBackups ==
    {i \in CallIdx : calls[i].op = "download" /\ ~calls[i].ok /\ up_pc # "failed"}

\* C27: in an upload that is not a dry run, a mutating remote call is issued
\* only if force is set or the user answered y to the confirmation before it;
\* after a failed backup a mutating call is issued only if force is set or the
\* user answered y to continuing without backup; and after a declined prompt
\* the upload has returned an empty report without any mutating call.
MutationNeedsConsent ==
    ~dry_run =>
        LET mutating == MutatingCalls
            confirmed == Accepted("Continue?")
            waived == Accepted("Continue without backup?")
            failed == FailedBackups
        IN /\ ~force =>
                 \A m \in mutating :
                    /\ \E i \in confirmed : i < m
                    /\ \A b \in failed : \E i \in waived : b < i /\ i < m
           /\ Declined # {} =>
                 /\ mutating = {}
                 /\ up_pc = "returned"
                 /\ report = EmptyUploadReport

\* the backup failed, the user confirmed both prompts, and topics were mutated
MutationNeedsConsentWitness ==
    /\ ~dry_run /\ ~force
    /\ up_pc = "returned"
    /\ FailedBackups # {}
    /\ Accepted("Continue?") # {}
    /\ Accepted("Continue without backup?") # {}
    /\ MutatingCalls # {}

\* the topic ids present in the original snapshot and absent from the modified one
RemovedTopicIds ==
    KeySet(DictGet(original_data, "topics", JEmptyDict))
        \ KeySet(DictGet(modified_data, "topics", JEmptyDict))

\* the warning records of a topic
WarningsOf(topic_id) ==
    {k \in DOMAIN report.warnings : report.warnings[k].topic_id = topic_id}

\* C28: the upload never issues a delete call; when an upload that processed
\* its changes has returned, every topic id present in the original snapshot
\* and absent from the modified one has exactly one record in report.warnings
\* and no remote call was issued for it, and report.warnings holds nothing else.
DeletedTopicsAreOnlyWarned ==
    LET removed == RemovedTopicIds
    IN /\ \A i \in CallIdx : calls[i].op # "delete"
       /\ \A i \in CallIdx : calls[i].topic_id \notin removed
       /\ up_pc = "returned" /\ ProcessingStarted =>
             /\ \A t \in removed : Cardinality(WarningsOf(t)) = 1
             /\ Len(report.warnings) = Cardinality(removed)

\* an upload that updated one topic and returned a warning for another, which
\* the modified snapshot no longer holds
DeletedTopicWitness ==
    /\ up_pc = "returned"
    /\ ProcessingStarted
    /\ RemovedTopicIds # {}
    /\ UpdatedTopics # {}
    /\ Len(report.warnings) = 1

\* the terminal calls of a modified topic: its successful checkin, or the
\* compensating cancel that follows its failed checkout or checkin
TerminalCalls(topic_id) ==
    {e \in CallIdx :
        /\ calls[e].topic_id = topic_id
        /\ \/ calls[e].op = "checkin" /\ calls[e].ok
           \/ /\ calls[e].op = "cancel"
              /\ \E f \in CallIdx :
                    /\ f < e
                    /\ calls[f].topic_id = topic_id
                    /\ calls[f].op \in {"checkout", "checkin"}
                    /\ ~calls[f].ok}

\* the topics with an edit session in flight: checked out, and neither
\* checked in nor rolled back yet
InFlightTopics ==
    {t \in CheckedOutTopics : TerminalCalls(t) = {}}

\* C29: modified topics are processed strictly one after another.  Every
\* call is the latest call of the state that issued it, and for the latest
\* call: nothing (not even the search of the next lock reset) lies between it
\* and an earlier call of the same modified topic; a call for another
\* modified topic precedes it only together with that topic's terminal call;
\* and at most one topic's edit session is in flight.
ModifiedTopicsAreSerialized ==
    /\ calls # <<>> =>
          LET k == Len(calls)
              t == calls[k].topic_id
          IN t \in ModifiedTopicIds =>
                /\ \A i \in 1..(k - 1) :
                      calls[i].topic_id = t =>
                          \A j \in i..k : calls[j].topic_id = t
                /\ \A a \in ModifiedTopicIds \ {t} :
                      (\E i \in 1..(k - 1) : calls[i].topic_id = a) =>
                          TerminalCalls(a) # {}
    /\ Cardinality(InFlightTopics) <= 1

\* two modified topics were processed: the first failed at its checkin and was
\* rolled back before the second was checked out and checked in
ModifiedTopicsAreSerializedWitness ==
    \E a, b \in ModifiedTopicIds :
        /\ a # b
        /\ \E f \in CallsOf("checkin", a), r \in CallsOf("cancel", a),
              c \in CallsOf("checkout", b), n \in CallsOf("checkin", b) :
              /\ f < r /\ r < c /\ c < n
              /\ ~calls[f].ok /\ calls[c].ok /\ calls[n].ok

\* the terminal states of a modified topic
CheckedIn(topic_id) ==
    /\ topic_id \in UpdatedTopics
    /\ \E c \in CallsOf("checkin", topic_id) : calls[c].ok
RolledBack(topic_id) ==
    /\ topic_id \in ErrorTopics
    /\ \E r \in TerminalCalls(topic_id) : calls[r].op = "cancel"

\* every modified topic is in exactly one terminal state
AllModifiedTerminal ==
    \A t \in ModifiedTopicIds : CheckedIn(t) # RolledBack(t)

\* a checkin call comes after a successful checkout of its topic, and no
\* failure of the topic was recorded before it
CheckinOnlyWithoutException ==
    \A c \in CallIdx :
        calls[c].op = "checkin" =>
            /\ \E o \in CallsOf("checkout", calls[c].topic_id) : o < c /\ calls[o].ok
            /\ \A f \in CallIdx :
                  f < c /\ calls[f].topic_id = calls[c].topic_id =>
                      ~(calls[f].op \in {"checkout", "checkin"} /\ ~calls[f].ok)
            /\ calls[c].ok => calls[c].topic_id \notin ErrorTopics

\* C30: when every remote call returns or fails, an upload that has started
\* to process its changes eventually returns with every topic of
\* changes.modified_topics in exactly one terminal state, CheckedIn (its
\* checkin succeeded and it is recorded in updated) or RolledBack (a failure
\* is recorded in errors and a cancel-checkout was attempted); no topic is
\* ever in both, and a checkin is issued only when nothing failed before it.
ModifiedTopicsTerminate ==
    /\ [](\A t \in ModifiedTopicIds : ~(CheckedIn(t) /\ RolledBack(t)))
    /\ []CheckinOnlyWithoutException
    /\ (ProcessingStarted ~> (up_pc = "returned" /\ AllModifiedTerminal))

\* an upload that returned with one modified topic checked in and another
\* rolled back
ModifiedTopicsTerminateWitness ==
    /\ up_pc = "returned"
    /\ \E a, b \in ModifiedTopicIds : CheckedIn(a) /\ RolledBack(b)

\* the calls of the lock reset: the search, and the cancel that follows it
LockResetCalls ==
    {i \in CallIdx :
        \/ calls[i].op = "search"
        \/ calls[i].op = "cancel" /\ i > 1 /\ calls[i - 1].op = "search"}

\* the failed create, checkout and checkin calls
FailedTopicCalls ==
    {i \in CallIdx : calls[i].op \in {"create", "checkout", "checkin"} /\ ~calls[i].ok}

\* C31: the lock reset is best-effort: after a failed search, or a failed
\* cancel of the lock reset, the call that follows is the checkout (for a
\* cancel, of the same topic), and the failure records nothing: the records
\* of report.errors are as many as the failed create, checkout and checkin
\* calls.
LockResetIsBestEffort ==
    /\ \A i \in LockResetCalls :
          ~calls[i].ok =>
              IF i = Len(calls)
              THEN up_pc = "checkout"
              ELSE /\ calls[i + 1].op = "checkout"
                   /\ calls[i].op = "cancel" => calls[i + 1].topic_id = calls[i].topic_id
    /\ ProcessingStarted => Len(report.errors) = Cardinality(FailedTopicCalls)

\* an upload in which the search of one lock reset and the cancel of another
\* failed, each followed by a checkout that succeeded
LockResetWitness ==
    /\ up_pc = "returned"
    /\ \E i, j \in LockResetCalls :
          /\ calls[i].op = "search" /\ ~calls[i].ok
          /\ calls[i + 1].op = "checkout" /\ calls[i + 1].ok
          /\ calls[j].op = "cancel" /\ ~calls[j].ok
          /\ calls[j + 1].op = "checkout" /\ calls[j + 1].ok
    /\ report.errors = <<>>

\* C32: in an upload that downloaded the original snapshot from the service
\* itself (so that every modified topic exists remotely), the lock reset of a
\* modified topic whose search succeeded issues a cancel-checkout with the
\* topic's current remote version before the checkout is attempted: the call
\* in front of a checkout is that cancel, never the successful search itself.
LockResetCancelsStaleCheckout ==
    ~original_file =>
        \A c \in CallIdx :
            calls[c].op = "checkout" /\ calls[c - 1].op = "search" => ~calls[c - 1].ok

\* the topic entry of the modified snapshot
ModifiedTopicData(topic_id) ==
    DictGet(DictGet(modified_data, "topics", JEmptyDict), topic_id, JNull)

\* the records of report.created of a topic
CreatedOf(topic_id) ==
    {k \in DOMAIN report.created : report.created[k].topic_id = topic_id}

\* C33: when an upload that processed its changes has returned, every topic
\* of changes.new_topics has exactly one create call, which carries the
\* topic's title and topic_type_id, and no checkout, metadata, part, checkin
\* or cancel call; the topic has one record in report.created and none in
\* report.errors when the call succeeded, and the reverse when it failed.
NewTopicIsCreatedOnce ==
    up_pc = "returned" /\ ProcessingStarted =>
        \A t \in NewTopicIds :
            /\ Cardinality(CallsOf("create", t)) = 1
            /\ \A i \in CallIdx :
                  calls[i].topic_id = t =>
                      /\ calls[i].op = "create"
                      /\ DictGet(calls[i].arg, "title", JNull)
                            = DictGet(ModifiedTopicData(t), "title", JNull)
                      /\ DictGet(calls[i].arg, "topic_type_id", JNull)
                            = DictGet(ModifiedTopicData(t), "topic_type_id", JNull)
                      /\ Cardinality(CreatedOf(t)) = (IF calls[i].ok THEN 1 ELSE 0)
                      /\ Cardinality(ErrorsOf(t)) = (IF calls[i].ok THEN 0 ELSE 1)

\* an upload that created one topic and updated another
NewTopicWitness ==
    /\ up_pc = "returned"
    /\ \E t \in NewTopicIds :
          /\ \E i \in CallsOf("create", t) :
                calls[i].ok /\ DictGet(calls[i].arg, "title", JNull) # JNull
          /\ CreatedOf(t) # {}
    /\ UpdatedTopics # {}

\* the exported topics mapping: what is stored under every topic id,
\* whatever the order of the keys
TopicsMapping(d) == {<<d[i][1], d[i][2]>> : i \in DOMAIN d}

\* the export of a run whose futures complete in the order of submission
RECURSIVE CompletedInOrder(_, _, _)
CompletedInOrder(d, topics, rem) ==
    IF topics = <<>> THEN d
    ELSE CompletedInOrder(HandleResult(d, fetch_topic_data(Head(topics), rem)),
                          Tail(topics), rem)
SubmissionOrderExport == BuildParentsFrom(CompletedInOrder(<<>>, pool_topics, remote), 1)

\* C34: when the bulk fetch with the worker pool is done, the exported topics
\* mapping (parts, children and parent of every topic) is the one of the run
\* whose workers complete in submission order, so it is the same for every
\* interleaving and completion order of the workers.
ExportIndependentOfCompletionOrder ==
    pool_pc = "done" => TopicsMapping(topics_dict) = TopicsMapping(SubmissionOrderExport)

ReqIdx == 1..Len(requests)
DeleteCalls == {i \in ReqIdx : requests[i].kind = "delete"}
EarlierOf(i) == {j \in ReqIdx : j < i /\ requests[j].op = requests[i].op}

\* the topic version id delete_topic holds when it sends request i: the one
\* read from the latest answered checkout or workflow state lookup of the
\* operation, else the one passed to delete_topic
AnsweredBefore(i) ==
    {j \in EarlierOf(i) : requests[j].kind \in {"workflow", "state"} /\ requests[j].ok}
VersionHeldAt(i) ==
    IF AnsweredBefore(i) # {}
    THEN requests[CHOOSE j \in AnsweredBefore(i) : \A k \in AnsweredBefore(i) : k <= j].answer
    ELSE requests[CHOOSE j \in EarlierOf(i) : requests[j].kind = "enter"].version

ActionCode(intent) ==
    CASE intent = "checkout" -> 0
      [] intent = "checkin" -> 1
      [] intent = "cancel" -> 2
WorkflowRequests == {i \in ReqIdx : requests[i].kind = "workflow"}

\* C36: every workflow request carries action 0 when its caller performs a
\* checkout, 1 when it performs a checkin and 2 when it performs a cancel, so
\* TopicTools.checkout sends the code of AskDelphiClient.checkout_topic and
\* TopicTools.checkin the code of AskDelphiClient.checkin_topic.
WorkflowActionsEncodedIdentically ==
    \A i \in WorkflowRequests :
        requests[i].action = ActionCode(WorkflowIntent(requests[i].caller))

\* the topic ids of the four collections of the ChangeSet, one after the other
ChangeSetIds ==
    changes.new_topics
      \o [i \in 1..Len(changes.modified_topics) |-> changes.modified_topics[i].topic_id]
      \o changes.deleted_topics
      \o changes.unchanged_topics

\* C37: after detect_changes the new, modified, deleted and unchanged
\* collections partition the topic ids of the two snapshots: every id of
\* either snapshot occurs in them, nothing else does, and no id occurs twice,
\* neither in two collections nor twice in one.
ChangeSetPartitionsIds ==
    diff_pc \in {"detected", "selfdetected"} =>
        /\ SeqSet(ChangeSetIds) = KeySet(OrigTopics) \cup KeySet(ModTopics)
        /\ \A i, j \in 1..Len(ChangeSetIds) : ChangeSetIds[i] = ChangeSetIds[j] => i = j

\* two snapshots were compared of which one topic is in the original only
\* and the other in the modified only
ChangeSetPartitionWitness ==
    /\ diff_pc = "detected"
    /\ Len(changes.new_topics) = 1
    /\ Len(changes.deleted_topics) = 1
    /\ changes.new_topics # changes.deleted_topics
    /\ Cardinality(KeySet(OrigTopics) \cup KeySet(ModTopics)) = 2

\* the records of a topic in report.updated
UpdatedOf(topic_id) ==
    {k \in DOMAIN report.updated : report.updated[k].topic_id = topic_id}

\* C38: when a confirmed non-dry-run upload that processed its changes has
\* returned, every topic of changes.modified_topics has exactly one record in
\* report.updated and report.errors taken together; the record is in
\* report.updated if and only if a checkin call of the topic succeeded, and
\* its parts_updated is the number of part-update calls of the topic that
\* succeeded.
ModifiedTopicsReportedOnce ==
    (up_pc = "returned" /\ ProcessingStarted) =>
        \A t \in ModifiedTopicIds :
            /\ Cardinality(UpdatedOf(t)) + Cardinality(ErrorsOf(t)) = 1
            /\ UpdatedOf(t) # {} <=> \E c \in CallsOf("checkin", t) : calls[c].ok
            /\ \A k \in UpdatedOf(t) :
                  report.updated[k].parts_updated
                      = Cardinality({i \in CallsOf("part", t) : calls[i].ok})

\* an upload has returned in which one modified topic was checked in after
\* one of its two part updates failed and another modified topic failed
ModifiedTopicsReportedWitness ==
    /\ up_pc = "returned" /\ ProcessingStarted
    /\ \E t \in ModifiedTopicIds :
          /\ UpdatedOf(t) # {}
          /\ \E i, j \in CallsOf("part", t) : calls[i].ok /\ ~calls[j].ok
    /\ \E t \in ModifiedTopicIds : ErrorsOf(t) # {}

\* the parts of a topic, and the topics of both snapshots whose versions
\* differ in a non-volatile field, but neither in the title nor in the set of
\* parts nor in the content of a part
TopicParts(topic) == DictGet(topic, "parts", JEmptyDict)
MetadataOnlyTopics ==
    {t \in KeySet(OrigTopics) \cap KeySet(ModTopics) :
        /\ PyEq(DictGet(OrigTopic(t), "title", JNull), DictGet(ModTopic(t), "title", JNull))
        /\ KeySet(TopicParts(OrigTopic(t))) = KeySet(TopicParts(ModTopic(t)))
        /\ \A p \in KeySet(TopicParts(OrigTopic(t))) :
              PyEq(DictGet(DictGet(TopicParts(OrigTopic(t)), p, JNull), "content", JNull),
                   DictGet(DictGet(TopicParts(ModTopic(t)), p, JNull), "content", JNull))
        /\ ~PyEq(normalize_topic(OrigTopic(t)), normalize_topic(ModTopic(t)))}

\* C40: when an upload that processed its changes has returned, a topic whose
\* two versions differ only in a non-volatile field other than the title and
\* the part contents is classified modified with title_changed false and no
\* changed part; no metadata and no part-update call was sent for it, the call
\* after its successful checkout is its checkin, and a successful checkin has
\* recorded it in updated with parts_updated 0.
MetadataOnlyChangeIsEmptyCycle ==
    (up_pc = "returned" /\ ProcessingStarted) =>
        \A t \in MetadataOnlyTopics :
            /\ Cardinality(ModifiedEntriesOf(t)) = 1
            /\ \A k \in ModifiedEntriesOf(t) :
                  /\ ~changes.modified_topics[k].title_changed
                  /\ changes.modified_topics[k].changed_parts = <<>>
            /\ CallsOf("metadata", t) = {} /\ CallsOf("part", t) = {}
            /\ \A c \in CallsOf("checkout", t) :
                  calls[c].ok =>
                      /\ c < Len(calls)
                      /\ calls[c + 1].op = "checkin" /\ calls[c + 1].topic_id = t
            /\ (\E c \in CallsOf("checkin", t) : calls[c].ok) => UpdatedOf(t) # {}
            /\ \A k \in UpdatedOf(t) : report.updated[k].parts_updated = 0

\* the upload of a topic of which only the name of a part was changed has
\* returned after a checkout and a checkin of the topic
MetadataOnlyChangeWitness ==
    /\ up_pc = "returned"
    /\ \E t \in MetadataOnlyTopics :
          /\ UpdatedOf(t) # {}
          /\ DictGet(DictGet(TopicParts(OrigTopic(t)), "p1", JNull), "name", JNull)
                # DictGet(DictGet(TopicParts(ModTopic(t)), "p1", JNull), "name", JNull)
          /\ \E c \in CallsOf("checkout", t) : calls[c].ok /\ calls[c + 1].op = "checkin"

\* the exp claims of the tokens the derivation endpoint hands out at time t
ExpClaims(token, t) ==
    {Get(resp.payload, "exp", 0) :
        resp \in {r \in DeriveResponses(t) :
                     r.token = token /\ r.decodes /\ "exp" \in DOMAIN r.payload}}

\* C39: one call of ensure_api_token makes at most one refresh call and at
\* most one derivation call, whatever the server answers; when it returns,
\* the token it returns is the stored api_token, and when it derived that token
\* the stored expiry is the exp claim of the token or the time of the call
\* plus 3600 seconds.
EnsureApiTokenCallsOnce ==
    tok_op = "ensure_api_token" =>
        /\ Cardinality(EventsOf("refresh")) <= 1
        /\ Cardinality(EventsOf("derive")) <= 1
        /\ (tok_pc = "idle" /\ tok_result = "returned") =>
              /\ tok_value = api_token
              /\ EventsOf("derive") # {} =>
                    api_token_expiry \in ExpClaims(api_token, at_entry.now)
                                            \cup {at_entry.now + DefaultLifetime}

\* ensure_api_token has returned a token it derived after a refresh that
\* failed, and the token carries an exp claim
EnsureApiTokenWitness ==
    /\ Completed("ensure_api_token")
    /\ tok_result = "returned"
    /\ \E i \in EventsOf("refresh") : ~trace[i].ok
    /\ EventsOf("derive") # {}
    /\ api_token_expiry \in ExpClaims(api_token, at_entry.now)

=============================================================================
